---------------------------- MODULE Spec2Model ----------------------------
(***************************************************************************)
(* Saga orchestrator of the daily data analysis workflow                   *)
(* (src/saga_orchestrator.py) over its Firestore state store               *)
(* (src/firestore_repo.py).                                                *)
(*                                                                         *)
(* One orchestrator call is a sequence of steps separated by the calls it  *)
(* makes to the store and to the workflow steps; pc holds the position.    *)
(* Step indices are 0-based as in the source (enumerate).  Python None is  *)
(* the string "None"; a key missing from a dict is a key missing from the  *)
(* DOMAIN of the function that models the dict.  Timestamps are the token  *)
(* "ts".                                                                   *)
(***************************************************************************)
EXTENDS Integers, Sequences, FiniteSets, TLC

(* ------------------------------ bounds --------------------------------- *)

\* number of steps in the list handed to the orchestrator
NumSteps ==
    3

\* largest max_retries an orchestrator is constructed with
MaxRetries ==
    2

\* number of execute calls in one behaviour
MaxRuns ==
    2

\* number of calls on the store or on a step that fail in one behaviour
MaxFailures ==
    2

(* --------------------------- configuration ----------------------------- *)

\* the steps main.py builds, in order; the orchestrator gets the first NumSteps
StepNames ==
    <<"extract_data", "transform_data", "analyze_data", "store_results">>

steps ==
    SubSeq(StepNames, 1, NumSteps)

\* step.name of self.steps[i]
name(i) ==
    steps[i + 1]

Procs ==
    {"p1", "p2"}

Workflows ==
    {"daily_data_analysis", "other_workflow"}

None ==
    "None"

VARIABLES
    db,               \* workflow -> the document workflow_runs/<workflow> ([] = no document)
    history,          \* workflow -> the documents of its history subcollection, oldest first
    workflow_name,    \* caller -> self.workflow_name
    max_retries,      \* caller -> self.max_retries
    pc,               \* caller -> position in execute ("idle" = no call in flight)
    retry,            \* caller -> execute's argument
    last_success_step,\* caller -> execute's local last_success_step
    retry_count,      \* caller -> execute's local retry_count
    index,            \* caller -> loop variable of execute's for
    attempt,          \* caller -> loop variable of _execute_step_with_retry's for
    comp_index,       \* caller -> loop variable of _run_compensations' for
    execution_result, \* caller -> execute's local execution_result
    ret,              \* caller -> what the caller's last call returned or raised
    trace,            \* caller -> calls made on steps and exceptions caught, this call
    before,           \* caller -> the workflow's document and history when this call
                      \*           began, the runs so far and the calls in flight then
    runs,             \* number of execute calls so far
    failures    \* number of calls on the store or on a step that failed so far

store_vars ==
    <<db, history>>

config_vars ==
    <<workflow_name, max_retries>>

local_vars ==
    <<retry, last_success_step, retry_count, index, attempt, comp_index,
      execution_result>>

vars ==
    <<db, history, workflow_name, max_retries, pc, retry, last_success_step,
      retry_count, index, attempt, comp_index, execution_result, ret, trace,
      before, runs, failures>>

(* ------------------------------ helpers -------------------------------- *)

\* dict.get(key, default)
Get(d, k, default) ==
    IF k \in DOMAIN d THEN d[k] ELSE default

\* dict merge: the keys of data overwrite, the other keys of d stay
Merge(d, data) ==
    [k \in (DOMAIN d) \cup (DOMAIN data) |->
        IF k \in DOMAIN data THEN data[k] ELSE d[k]]

NoDocument ==
    [k \in {} |-> None]

\* str(e) of the exception a step's run() raises on a given attempt
RunError(i, a) ==
    "run_error_step" \o ToString(i) \o "_attempt" \o ToString(a)

\* str(e) of the exception update_state re-raises
WriteError ==
    "state_write_error"

\* str(e) of the exceptions get_state and save_execution_to_history swallow
ReadError ==
    "state_read_error"

HistoryError ==
    "history_add_error"

\* a call on the store or on a step may fail while the failure budget lasts
Outcomes ==
    IF failures < MaxFailures THEN {TRUE, FALSE} ELSE {TRUE}

Charge(ok) ==
    failures' = IF ok THEN failures ELSE failures + 1

(* -------------------------- FirestoreRepo ------------------------------ *)

\* get_default_state with a retry already counted
get_default_state_CountsRetry ==
    [status |-> "NOT_STARTED",
     last_success_step |-> -1,
     current_step |-> None,
     error |-> None,
     started_at |-> None,
     completed_at |-> None,
     retry_count |-> 1]

get_default_state ==
    [status |-> "NOT_STARTED",
     last_success_step |-> -1,
     current_step |-> None,
     error |-> None,
     started_at |-> None,
     completed_at |-> None,
     retry_count |-> 0]

\* get_state with the default state for the missing document only
get_state_DefaultOnlyWhenMissing(w, ok) ==
    IF DOMAIN db[w] # {} THEN db[w] ELSE get_default_state

\* get_state: the document, or the default state when there is no document
\* or the read raised
get_state(w, ok) ==
    IF ok /\ DOMAIN db[w] # {} THEN db[w] ELSE get_default_state

\* update_state with one document for all the workflows
update_state_SharedDocument(w, data) ==
    db' = [db EXCEPT !["daily_data_analysis"] =
              Merge(@, Merge(data, [updated_at |-> "ts"]))]

\* update_state, the write going through: merge data and the update stamp
update_state(w, data) ==
    db' = [db EXCEPT ![w] = Merge(@, Merge(data, [updated_at |-> "ts"]))]

\* reset_state with a merge-write of the default state for the overwrite
reset_state_Merges(w) ==
    db' = [db EXCEPT ![w] = Merge(@, get_default_state)]

\* reset_state, the write going through: the whole document is replaced
reset_state(w) ==
    db' = [db EXCEPT ![w] = get_default_state]

\* save_execution_to_history with the entry added twice
save_execution_to_history_AddsTwice(w, execution_data, ok) ==
    history' = IF ok
               THEN [history EXCEPT ![w] =
                        Append(Append(@, Merge(execution_data, [created_at |-> "ts"])),
                               Merge(execution_data, [created_at |-> "ts"]))]
               ELSE history

\* save_execution_to_history: stamps the dict it is given, then adds it;
\* a failing add is swallowed
save_execution_to_history(w, execution_data, ok) ==
    history' = IF ok
               THEN [history EXCEPT ![w] =
                        Append(@, Merge(execution_data, [created_at |-> "ts"]))]
               ELSE history


(* ----------------------- values local to a call ------------------------ *)

\* what a caller holds before its first call
NoCall ==
    [op |-> "none", kind |-> "none", value |-> None]

Pending(op) ==
    [op |-> op, kind |-> "pending", value |-> None]

Returned(op, value) ==
    [op |-> op, kind |-> "returned", value |-> value]

Raised(op, error) ==
    [op |-> op, kind |-> "raised", value |-> error]

\* the process died inside the call: nothing is returned
Crashed(op) ==
    [op |-> op, kind |-> "crashed", value |-> None]

\* execute's early return
AlreadyInProgress ==
    [status |-> "ALREADY_IN_PROGRESS", message |-> "Workflow is already running"]

NewExecutionResult ==
    [status |-> "SUCCESS", steps_executed |-> <<>>, errors |-> <<>>]

\* SkippedResult with the skipped step reported as run again
SkippedResult_AsSuccess(i) ==
    [step |-> name(i), status |-> "SUCCESS", index |-> i]

SkippedResult(i) ==
    [step |-> name(i), status |-> "SKIPPED", index |-> i]

SuccessResult(i, a) ==
    [step |-> name(i), status |-> "SUCCESS", index |-> i, attempts |-> a + 1,
     result |-> "payload"]

FailedResult(i, a, e) ==
    [step |-> name(i), status |-> "FAILED", index |-> i, attempts |-> a + 1,
     error |-> e]

\* MaxRetriesExceededResult with an attempts field, as the other results have
MaxRetriesExceededResult_WithAttempts(i) ==
    [step |-> name(i), status |-> "FAILED", index |-> i, attempts |-> 0,
     error |-> "Max retries exceeded"]

\* the return after the for of _execute_step_with_retry
MaxRetriesExceededResult(i) ==
    [step |-> name(i), status |-> "FAILED", index |-> i,
     error |-> "Max retries exceeded"]

AppendStep(er, step_result) ==
    [er EXCEPT !.steps_executed = Append(@, step_result)]

\* one call on a step, or one exception caught in the retry loop
Event(op, i, a, e) ==
    [op |-> op, index |-> i, attempt |-> a, error |-> e]

Log(p, e) ==
    trace' = [trace EXCEPT ![p] = Append(@, e)]

\* the other callers that are inside a call on the workflow of p
InFlight(p) ==
    {q \in Procs \ {p} : workflow_name[q] = workflow_name[p] /\ pc[q] # "idle"}

\* the body of the 202 response of run_analysis
AcceptedResponse ==
    [status_code |-> 202,
     content |-> [status |-> "accepted",
                  message |-> "Workflow execution started in background",
                  workflow_name |-> "daily_data_analysis"]]

\* a call begins: what is persisted for the caller's workflow at that
\* moment, the number of execute calls made so far, the calls in flight,
\* whether the caller's previous call was cut short by a crash, and whether
\* the call is the background task of a request already answered with 202
Begin(p) ==
    /\ before' = [before EXCEPT ![p] =
                     [doc |-> db[workflow_name[p]],
                      history |-> history[workflow_name[p]],
                      runs |-> runs,
                      inflight |-> InFlight(p),
                      crashed |-> ret[p].kind = "crashed",
                      accepted |-> /\ ret[p].op = "run_analysis"
                                   /\ ret[p].value = AcceptedResponse]]
    /\ trace' = [trace EXCEPT ![p] = <<>>]

\* the locals of a call that is over hold nothing
ClearLocals(p) ==
    /\ index' = [index EXCEPT ![p] = 0]
    /\ attempt' = [attempt EXCEPT ![p] = 0]
    /\ comp_index' = [comp_index EXCEPT ![p] = 0]
    /\ execution_result' = [execution_result EXCEPT ![p] = NewExecutionResult]

\* the call ends: it returns or raises r
Finish(p, r) ==
    /\ pc' = [pc EXCEPT ![p] = "idle"]
    /\ ret' = [ret EXCEPT ![p] = r]
    /\ ClearLocals(p)

(* ------------------- what execute writes to the state ------------------ *)

\* InitialUpdate with the checkpoint put back to -1 by the first write
InitialUpdate_ResetsCheckpoint(rc) ==
    [status |-> "IN_PROGRESS",
     started_at |-> "ts",
     retry_count |-> rc,
     error |-> None,
     last_success_step |-> -1]

\* InitialUpdate with retry_count counted up by the write
InitialUpdate_IncrementsRetryCount(rc) ==
    [status |-> "IN_PROGRESS",
     started_at |-> "ts",
     retry_count |-> rc + 1,
     error |-> None]

\* InitialUpdate with the error of the run before left in place
InitialUpdate_KeepsError(rc) ==
    [status |-> "IN_PROGRESS",
     started_at |-> "ts",
     retry_count |-> rc]

\* the first write of a run
InitialUpdate(rc) ==
    [status |-> "IN_PROGRESS",
     started_at |-> "ts",
     retry_count |-> rc,
     error |-> None]

\* AttemptUpdate with the attempt number counted from 0
AttemptUpdate_ZeroBased(i, a) ==
    [current_step |-> name(i),
     current_step_index |-> i,
     current_step_attempt |-> a]

\* the write before attempt a + 1 of step i
AttemptUpdate(i, a) ==
    [current_step |-> name(i),
     current_step_index |-> i,
     current_step_attempt |-> a + 1]

\* CheckpointUpdate with the number of steps done for the index of the last
CheckpointUpdate_CountsSteps(i) ==
    [last_success_step |-> i + 1]

\* the write after step i succeeded
CheckpointUpdate(i) ==
    [last_success_step |-> i]

\* FailedUpdate that also takes the checkpoint back after the compensations
FailedUpdate_ClearsCheckpoint(step_result, i) ==
    [status |-> "FAILED",
     error |-> Get(step_result, "error", None),
     failed_step |-> name(i),
     completed_at |-> "ts",
     last_success_step |-> -1]

\* the write after the compensations of a run that failed at step i
FailedUpdate(step_result, i) ==
    [status |-> "FAILED",
     error |-> Get(step_result, "error", None),
     failed_step |-> name(i),
     completed_at |-> "ts"]

\* SuccessUpdate with len(self.steps) for len(self.steps) - 1
SuccessUpdate_OffByOne ==
    [status |-> "SUCCESS",
     completed_at |-> "ts",
     last_success_step |-> Len(steps)]

\* SuccessUpdate that also clears what the failed run before it left
SuccessUpdate_ClearsFailedStep ==
    [status |-> "SUCCESS",
     completed_at |-> "ts",
     last_success_step |-> Len(steps) - 1,
     failed_step |-> None,
     current_step |-> None]

\* the write after the last step
SuccessUpdate ==
    [status |-> "SUCCESS",
     completed_at |-> "ts",
     last_success_step |-> Len(steps) - 1]

\* InProgressGuard that stops the calls with retry = true as well
InProgressGuard_IgnoresRetry(state, r) ==
    Get(state, "status", None) = "IN_PROGRESS"

\* InProgressGuard that lets every call through
InProgressGuard_NeverFires(state, r) ==
    FALSE

\* InProgressGuard with the retry flag the wrong way round
InProgressGuard_RetryInverted(state, r) ==
    Get(state, "status", None) = "IN_PROGRESS" /\ r

\* if state.get("status") == "IN_PROGRESS" and not retry
InProgressGuard(state, r) ==
    Get(state, "status", None) = "IN_PROGRESS" /\ ~r

\* AlreadyCompleted with the checkpoint ignored: no step is skipped
AlreadyCompleted_SkipsNothing(i, lss) ==
    FALSE

\* AlreadyCompleted with < for <=
AlreadyCompleted_OffByOne(i, lss) ==
    i < lss

\* if index <= last_success_step: the step is skipped
AlreadyCompleted(i, lss) ==
    i <= lss

(* --------------------------- Init -------------------------------------- *)

\* the values of max_retries the orchestrators are built with: a positive
\* integer, as main.py passes
RetryChoices ==
    1 .. MaxRetries

Init ==
    /\ db = [w \in Workflows |-> NoDocument]
    /\ history = [w \in Workflows |-> <<>>]
    /\ workflow_name = [p \in Procs |-> "daily_data_analysis"]
    /\ \E m \in RetryChoices : max_retries = [p \in Procs |-> m]
    /\ pc = [p \in Procs |-> "idle"]
    /\ retry = [p \in Procs |-> FALSE]
    /\ last_success_step = [p \in Procs |-> -1]
    /\ retry_count = [p \in Procs |-> 0]
    /\ index = [p \in Procs |-> 0]
    /\ attempt = [p \in Procs |-> 0]
    /\ comp_index = [p \in Procs |-> 0]
    /\ execution_result = [p \in Procs |-> NewExecutionResult]
    /\ ret = [p \in Procs |-> NoCall]
    /\ trace = [p \in Procs |-> <<>>]
    /\ before = [p \in Procs |-> [doc |-> NoDocument, history |-> <<>>,
                                   runs |-> 0, inflight |-> {},
                                   crashed |-> FALSE, accepted |-> FALSE]]
    /\ runs = 0
    /\ failures = 0

(* ---------------------- SagaOrchestrator.execute ----------------------- *)

\* an orchestrator is built with max_retries m and execute(retry = r) is called
execute(p, r, m) ==
    /\ pc[p] = "idle"
    /\ runs < MaxRuns
    /\ runs' = runs + 1
    /\ pc' = [pc EXCEPT ![p] = "get_state"]
    /\ retry' = [retry EXCEPT ![p] = r]
    /\ max_retries' = [max_retries EXCEPT ![p] = m]
    /\ last_success_step' = [last_success_step EXCEPT ![p] = -1]
    /\ retry_count' = [retry_count EXCEPT ![p] = 0]
    /\ ret' = [ret EXCEPT ![p] = Pending("execute")]
    /\ Begin(p)
    /\ UNCHANGED <<store_vars, workflow_name, index, attempt, comp_index,
                   execution_result, failures>>

\* ReadState with every run begun at step 0
ReadState_IgnoresCheckpoint(p) ==
    /\ pc[p] = "get_state"
    /\ \E ok \in Outcomes :
        LET state == get_state(workflow_name[p], ok) IN
        /\ Charge(ok)
        /\ IF ok THEN UNCHANGED trace
                 ELSE Log(p, Event("read_failed", 0, 0, ReadError))
        /\ IF InProgressGuard(state, retry[p])
           THEN /\ Finish(p, Returned("execute", AlreadyInProgress))
                /\ UNCHANGED <<last_success_step, retry_count>>
           ELSE /\ last_success_step' = [last_success_step EXCEPT ![p] = -1]
                /\ retry_count' =
                      [retry_count EXCEPT ![p] =
                          IF retry[p] THEN Get(state, "retry_count", 0) ELSE 0]
                /\ pc' = [pc EXCEPT ![p] = "init_write"]
                /\ UNCHANGED <<ret, index, attempt, comp_index, execution_result>>
    /\ UNCHANGED <<store_vars, config_vars, retry, before, runs>>

\* ReadState with the checkpoint taken up only by a call with retry = true
ReadState_ResumesOnlyOnRetry(p) ==
    /\ pc[p] = "get_state"
    /\ \E ok \in Outcomes :
        LET state == get_state(workflow_name[p], ok) IN
        /\ Charge(ok)
        /\ IF ok THEN UNCHANGED trace
                 ELSE Log(p, Event("read_failed", 0, 0, ReadError))
        /\ IF InProgressGuard(state, retry[p])
           THEN /\ Finish(p, Returned("execute", AlreadyInProgress))
                /\ UNCHANGED <<last_success_step, retry_count>>
           ELSE /\ last_success_step' =
                      [last_success_step EXCEPT ![p] =
                          IF retry[p] THEN Get(state, "last_success_step", -1)
                                      ELSE -1]
                /\ retry_count' =
                      [retry_count EXCEPT ![p] =
                          IF retry[p] THEN Get(state, "retry_count", 0) ELSE 0]
                /\ pc' = [pc EXCEPT ![p] = "init_write"]
                /\ UNCHANGED <<ret, index, attempt, comp_index, execution_result>>
    /\ UNCHANGED <<store_vars, config_vars, retry, before, runs>>

\* state = self.repo.get_state(); the in-progress check; the two locals
ReadState(p) ==
    /\ pc[p] = "get_state"
    /\ \E ok \in Outcomes :
        LET state == get_state(workflow_name[p], ok) IN
        /\ Charge(ok)
        /\ IF ok THEN UNCHANGED trace
                 ELSE Log(p, Event("read_failed", 0, 0, ReadError))
        /\ IF InProgressGuard(state, retry[p])
           THEN /\ Finish(p, Returned("execute", AlreadyInProgress))
                /\ UNCHANGED <<last_success_step, retry_count>>
           ELSE /\ last_success_step' =
                      [last_success_step EXCEPT ![p] =
                          Get(state, "last_success_step", -1)]
                /\ retry_count' =
                      [retry_count EXCEPT ![p] =
                          IF retry[p] THEN Get(state, "retry_count", 0) ELSE 0]
                /\ pc' = [pc EXCEPT ![p] = "init_write"]
                /\ UNCHANGED <<ret, index, attempt, comp_index, execution_result>>
    /\ UNCHANGED <<store_vars, config_vars, retry, before, runs>>

\* the first update_state of execute and the new execution_result
InitWrite(p) ==
    /\ pc[p] = "init_write"
    /\ \E ok \in Outcomes :
        /\ Charge(ok)
        /\ IF ok
           THEN /\ update_state(workflow_name[p], InitialUpdate(retry_count[p]))
                /\ execution_result' =
                      [execution_result EXCEPT ![p] = NewExecutionResult]
                /\ index' = [index EXCEPT ![p] = 0]
                /\ pc' = [pc EXCEPT ![p] = "loop"]
                /\ UNCHANGED <<ret, attempt, comp_index>>
           ELSE /\ Finish(p, Raised("execute", WriteError))
                /\ UNCHANGED db
    /\ UNCHANGED <<history, config_vars, retry, last_success_step, retry_count,
                   trace, before, runs>>

\* StepFailed without the break: the loop goes on to the next step
StepFailed_GoesOn(p, step_result) ==
    /\ execution_result' =
          [execution_result EXCEPT ![p] = AppendStep(@, step_result)]
    /\ index' = [index EXCEPT ![p] = @ + 1]
    /\ pc' = [pc EXCEPT ![p] = "loop"]
    /\ UNCHANGED <<attempt, comp_index>>

\* step_result is FAILED: it is appended and the compensations start
StepFailed(p, step_result) ==
    /\ execution_result' =
          [execution_result EXCEPT ![p] = AppendStep(@, step_result)]
    /\ comp_index' = [comp_index EXCEPT ![p] = index[p] - 1]
    /\ pc' = [pc EXCEPT ![p] = "compensate"]
    /\ UNCHANGED <<attempt, index>>

\* the head of execute's for: the loop is over, the step is skipped, or
\* _execute_step_with_retry is entered
NextStep(p) ==
    /\ pc[p] = "loop"
    /\ IF index[p] >= NumSteps
       THEN /\ pc' = [pc EXCEPT ![p] = "success_write"]
            /\ UNCHANGED <<index, attempt, comp_index, execution_result>>
       ELSE IF AlreadyCompleted(index[p], last_success_step[p])
       THEN /\ execution_result' =
                  [execution_result EXCEPT ![p] =
                      AppendStep(@, SkippedResult(index[p]))]
            /\ index' = [index EXCEPT ![p] = @ + 1]
            /\ UNCHANGED <<pc, attempt, comp_index>>
       ELSE IF max_retries[p] <= 0
       THEN StepFailed(p, MaxRetriesExceededResult(index[p]))
       ELSE /\ attempt' = [attempt EXCEPT ![p] = 0]
            /\ pc' = [pc EXCEPT ![p] = "attempt_write"]
            /\ UNCHANGED <<index, comp_index, execution_result>>
    /\ UNCHANGED <<store_vars, config_vars, retry, last_success_step,
                   retry_count, ret, trace, before, runs, failures>>

\* Caught with the attempt repeated under the same number, without end
Caught_NeverGivesUp(p, e) ==
    /\ pc' = [pc EXCEPT ![p] = "attempt_write"]
    /\ UNCHANGED <<attempt, index, comp_index, execution_result>>

\* except Exception as e, in the retry loop: the last attempt gives the
\* FAILED result, any other attempt goes on to the next one
Caught(p, e) ==
    IF attempt[p] = max_retries[p] - 1
    THEN StepFailed(p, FailedResult(index[p], attempt[p], e))
    ELSE /\ attempt' = [attempt EXCEPT ![p] = @ + 1]
         /\ pc' = [pc EXCEPT ![p] = "attempt_write"]
         /\ UNCHANGED <<index, comp_index, execution_result>>

\* update_state of current_step, current_step_index, current_step_attempt
AttemptWrite(p) ==
    /\ pc[p] = "attempt_write"
    /\ \E ok \in Outcomes :
        /\ Charge(ok)
        /\ IF ok
           THEN /\ update_state(workflow_name[p],
                                AttemptUpdate(index[p], attempt[p]))
                /\ pc' = [pc EXCEPT ![p] = "run"]
                /\ UNCHANGED <<index, attempt, comp_index, execution_result,
                               trace>>
           ELSE /\ Log(p, Event("write_failed", index[p], attempt[p] + 1,
                                WriteError))
                /\ Caught(p, WriteError)
                /\ UNCHANGED db
    /\ UNCHANGED <<history, config_vars, retry, last_success_step, retry_count,
                   ret, before, runs>>

\* RunStep with the exception of the last attempt raised out of execute
RunStep_RaisesLastError(p) ==
    /\ pc[p] = "run"
    /\ \E ok \in Outcomes :
        LET e == IF ok THEN None ELSE RunError(index[p], attempt[p] + 1) IN
        /\ Charge(ok)
        /\ Log(p, Event("run", index[p], attempt[p] + 1, e))
        /\ IF ok
           THEN /\ pc' = [pc EXCEPT ![p] = "checkpoint_write"]
                /\ UNCHANGED <<index, attempt, comp_index, execution_result, ret>>
           ELSE IF attempt[p] = max_retries[p] - 1
           THEN Finish(p, Raised("execute", e))
           ELSE /\ Caught(p, e)
                /\ UNCHANGED ret
    /\ UNCHANGED <<store_vars, config_vars, retry, last_success_step,
                   retry_count, before, runs>>

\* result = await step.run()
RunStep(p) ==
    /\ pc[p] = "run"
    /\ \E ok \in Outcomes :
        LET e == IF ok THEN None ELSE RunError(index[p], attempt[p] + 1) IN
        /\ Charge(ok)
        /\ Log(p, Event("run", index[p], attempt[p] + 1, e))
        /\ IF ok
           THEN /\ pc' = [pc EXCEPT ![p] = "checkpoint_write"]
                /\ UNCHANGED <<index, attempt, comp_index, execution_result>>
           ELSE Caught(p, e)
    /\ UNCHANGED <<store_vars, config_vars, retry, last_success_step,
                   retry_count, ret, before, runs>>

\* CheckpointWrite with the error of the write raised out of execute
CheckpointWrite_Propagates(p) ==
    /\ pc[p] = "checkpoint_write"
    /\ \E ok \in Outcomes :
        /\ Charge(ok)
        /\ IF ok
           THEN /\ update_state(workflow_name[p], CheckpointUpdate(index[p]))
                /\ execution_result' =
                      [execution_result EXCEPT ![p] =
                          AppendStep(@, SuccessResult(index[p], attempt[p]))]
                /\ index' = [index EXCEPT ![p] = @ + 1]
                /\ pc' = [pc EXCEPT ![p] = "loop"]
                /\ UNCHANGED <<attempt, comp_index, trace, ret>>
           ELSE /\ Log(p, Event("write_failed", index[p], attempt[p] + 1,
                                WriteError))
                /\ Finish(p, Raised("execute", WriteError))
                /\ UNCHANGED db
    /\ UNCHANGED <<history, config_vars, retry, last_success_step, retry_count,
                   before, runs>>

\* update_state of last_success_step and the SUCCESS result
CheckpointWrite(p) ==
    /\ pc[p] = "checkpoint_write"
    /\ \E ok \in Outcomes :
        /\ Charge(ok)
        /\ IF ok
           THEN /\ update_state(workflow_name[p], CheckpointUpdate(index[p]))
                /\ execution_result' =
                      [execution_result EXCEPT ![p] =
                          AppendStep(@, SuccessResult(index[p], attempt[p]))]
                /\ index' = [index EXCEPT ![p] = @ + 1]
                /\ pc' = [pc EXCEPT ![p] = "loop"]
                /\ UNCHANGED <<attempt, comp_index, trace>>
           ELSE /\ Log(p, Event("write_failed", index[p], attempt[p] + 1,
                                WriteError))
                /\ Caught(p, WriteError)
                /\ UNCHANGED db
    /\ UNCHANGED <<history, config_vars, retry, last_success_step, retry_count,
                   ret, before, runs>>

\* Compensate with the sweep ended by the first compensate() that raises
Compensate_StopAtFailure(p) ==
    /\ pc[p] = "compensate"
    /\ IF comp_index[p] < 0
       THEN /\ pc' = [pc EXCEPT ![p] = "failed_write"]
            /\ UNCHANGED <<comp_index, trace, failures>>
       ELSE \E ok \in Outcomes :
            /\ Charge(ok)
            /\ Log(p, Event("compensate", comp_index[p], 0,
                            IF ok THEN None ELSE "compensate_error"))
            /\ comp_index' = [comp_index EXCEPT ![p] = IF ok THEN @ - 1 ELSE -1]
            /\ UNCHANGED pc
    /\ UNCHANGED <<store_vars, config_vars, retry, last_success_step,
                   retry_count, index, attempt, execution_result, ret, before,
                   runs>>

\* Compensate with the message of a compensate() that raised put into the
\* errors of the result
Compensate_RecordsError(p) ==
    /\ pc[p] = "compensate"
    /\ IF comp_index[p] < 0
       THEN /\ pc' = [pc EXCEPT ![p] = "failed_write"]
            /\ UNCHANGED <<comp_index, trace, failures, execution_result>>
       ELSE \E ok \in Outcomes :
            /\ Charge(ok)
            /\ Log(p, Event("compensate", comp_index[p], 0,
                            IF ok THEN None ELSE "compensate_error"))
            /\ comp_index' = [comp_index EXCEPT ![p] = @ - 1]
            /\ execution_result' =
                  IF ok THEN execution_result
                  ELSE [execution_result EXCEPT
                           ![p].errors = Append(@, "compensate_error")]
            /\ UNCHANGED pc
    /\ UNCHANGED <<store_vars, config_vars, retry, last_success_step,
                   retry_count, index, attempt, ret, before, runs>>

\* Compensate with FAILED written to the state before each compensation
Compensate_PersistsFailedFirst(p) ==
    /\ pc[p] = "compensate"
    /\ IF comp_index[p] < 0
       THEN /\ pc' = [pc EXCEPT ![p] = "failed_write"]
            /\ UNCHANGED <<comp_index, trace, failures, db>>
       ELSE \E ok \in Outcomes :
            /\ Charge(ok)
            /\ update_state(workflow_name[p], [status |-> "FAILED"])
            /\ Log(p, Event("compensate", comp_index[p], 0,
                            IF ok THEN None ELSE "compensate_error"))
            /\ comp_index' = [comp_index EXCEPT ![p] = @ - 1]
            /\ UNCHANGED pc
    /\ UNCHANGED <<history, config_vars, retry, last_success_step,
                   retry_count, index, attempt, execution_result, ret, before, runs>>

\* _run_compensations: one turn of for index in reversed(range(failed_step_index))
Compensate(p) ==
    /\ pc[p] = "compensate"
    /\ IF comp_index[p] < 0
       THEN /\ pc' = [pc EXCEPT ![p] = "failed_write"]
            /\ UNCHANGED <<comp_index, trace, failures>>
       ELSE \E ok \in Outcomes :
            /\ Charge(ok)
            /\ Log(p, Event("compensate", comp_index[p], 0,
                            IF ok THEN None ELSE "compensate_error"))
            /\ comp_index' = [comp_index EXCEPT ![p] = @ - 1]
            /\ UNCHANGED pc
    /\ UNCHANGED <<store_vars, config_vars, retry, last_success_step,
                   retry_count, index, attempt, execution_result, ret, before, runs>>

\* the FAILED step_result of the run: the last entry of steps_executed
FailedStepResult(er) ==
    er.steps_executed[Len(er.steps_executed)]

\* FailedExecutionResult with a 1-based failed_step_index
FailedExecutionResult_OneBased(er, i) ==
    Merge(er, [status |-> "FAILED",
               failed_step |-> name(i),
               failed_step_index |-> i + 1])

\* execution_result after lines 154-156
FailedExecutionResult(er, i) ==
    Merge(er, [status |-> "FAILED",
               failed_step |-> name(i),
               failed_step_index |-> i])

\* after the compensations: the result is marked FAILED and the state written
FailedWrite(p) ==
    /\ pc[p] = "failed_write"
    /\ \E ok \in Outcomes :
        /\ Charge(ok)
        /\ IF ok
           THEN /\ update_state(workflow_name[p],
                       FailedUpdate(FailedStepResult(execution_result[p]),
                                    index[p]))
                /\ execution_result' =
                      [execution_result EXCEPT ![p] =
                          FailedExecutionResult(@, index[p])]
                /\ pc' = [pc EXCEPT ![p] = "history"]
                /\ UNCHANGED <<ret, index, attempt, comp_index>>
           ELSE /\ Finish(p, Raised("execute", WriteError))
                /\ UNCHANGED db
    /\ UNCHANGED <<history, config_vars, retry, last_success_step, retry_count,
                   trace, before, runs>>

\* all steps done: the SUCCESS state is written
SuccessWrite(p) ==
    /\ pc[p] = "success_write"
    /\ \E ok \in Outcomes :
        /\ Charge(ok)
        /\ IF ok
           THEN /\ update_state(workflow_name[p], SuccessUpdate)
                /\ pc' = [pc EXCEPT ![p] = "history"]
                /\ UNCHANGED <<ret, index, attempt, comp_index,
                               execution_result>>
           ELSE /\ Finish(p, Raised("execute", WriteError))
                /\ UNCHANGED db
    /\ UNCHANGED <<history, config_vars, retry, last_success_step, retry_count,
                   trace, before, runs>>

\* SaveHistory with the exception of the history add raised out of execute
SaveHistory_RaisesAddError(p) ==
    /\ pc[p] = "history"
    /\ \E ok \in Outcomes :
        /\ Charge(ok)
        /\ save_execution_to_history(workflow_name[p], execution_result[p], ok)
        /\ IF ok THEN UNCHANGED trace
                 ELSE Log(p, Event("history_failed", 0, 0, HistoryError))
        /\ Finish(p, IF ok
                     THEN Returned("execute",
                              Merge(execution_result[p], [created_at |-> "ts"]))
                     ELSE Raised("execute", HistoryError))
    /\ UNCHANGED <<db, config_vars, retry, last_success_step, retry_count,
                   before, runs>>

\* save_execution_to_history(execution_result); return execution_result
\* (the dict returned is the one the repository stamped with created_at)
SaveHistory(p) ==
    /\ pc[p] = "history"
    /\ \E ok \in Outcomes :
        /\ Charge(ok)
        /\ save_execution_to_history(workflow_name[p], execution_result[p], ok)
        /\ IF ok THEN UNCHANGED trace
                 ELSE Log(p, Event("history_failed", 0, 0, HistoryError))
        /\ Finish(p, Returned("execute",
                     Merge(execution_result[p], [created_at |-> "ts"])))
    /\ UNCHANGED <<db, config_vars, retry, last_success_step, retry_count,
                   before, runs>>

(* ------------------ SagaOrchestrator.reset, get_status ------------------ *)

\* reset that also deletes the history subcollection
reset_DeletesHistory(p) ==
    /\ pc[p] = "idle"
    /\ \E ok \in Outcomes :
        /\ Charge(ok)
        /\ IF ok
           THEN /\ reset_state(workflow_name[p])
                /\ history' = [history EXCEPT ![workflow_name[p]] = <<>>]
                /\ ret' = [ret EXCEPT ![p] = Returned("reset", None)]
           ELSE /\ ret' = [ret EXCEPT ![p] = Raised("reset", WriteError)]
                /\ UNCHANGED <<db, history>>
    /\ Begin(p)
    /\ UNCHANGED <<config_vars, pc, local_vars, runs>>

\* reset guarded by the status: nothing is written while a run is IN_PROGRESS
reset_GuardedByStatus(p) ==
    /\ pc[p] = "idle"
    /\ \E ok \in Outcomes :
        /\ Charge(ok)
        /\ IF ok
           THEN /\ IF Get(db[workflow_name[p]], "status", None) = "IN_PROGRESS"
                   THEN UNCHANGED db
                   ELSE reset_state(workflow_name[p])
                /\ ret' = [ret EXCEPT ![p] = Returned("reset", None)]
           ELSE /\ ret' = [ret EXCEPT ![p] = Raised("reset", WriteError)]
                /\ UNCHANGED db
    /\ Begin(p)
    /\ UNCHANGED <<history, config_vars, pc, local_vars, runs>>

\* self.repo.reset_state()
reset(p) ==
    /\ pc[p] = "idle"
    /\ \E ok \in Outcomes :
        /\ Charge(ok)
        /\ IF ok
           THEN /\ reset_state(workflow_name[p])
                /\ ret' = [ret EXCEPT ![p] = Returned("reset", None)]
           ELSE /\ ret' = [ret EXCEPT ![p] = Raised("reset", WriteError)]
                /\ UNCHANGED db
    /\ Begin(p)
    /\ UNCHANGED <<history, config_vars, pc, local_vars, runs>>

get_status(p) ==
    /\ pc[p] = "idle"
    /\ \E ok \in Outcomes :
        /\ Charge(ok)
        /\ ret' = [ret EXCEPT ![p] =
                      Returned("get_status", get_state(workflow_name[p], ok))]
    /\ Begin(p)
    /\ UNCHANGED <<store_vars, config_vars, pc, local_vars, runs>>

(* --------------------------- specification ----------------------------- *)

\* one caller: the calls on the workflow do not overlap
Caller ==
    "p1"

Next ==
    \/ \E r \in BOOLEAN : execute(Caller, r, max_retries[Caller])
    \/ ReadState(Caller)
    \/ InitWrite(Caller)
    \/ NextStep(Caller)
    \/ AttemptWrite(Caller)
    \/ RunStep(Caller)
    \/ CheckpointWrite(Caller)
    \/ Compensate(Caller)
    \/ FailedWrite(Caller)
    \/ SuccessWrite(Caller)
    \/ SaveHistory(Caller)
    \/ reset(Caller)
    \/ get_status(Caller)

Spec ==
    Init /\ [][Next]_vars

(* ----------------------- reading a state ------------------------------- *)

\* the document persisted for the caller's workflow
Persisted(p) ==
    db[workflow_name[p]]

\* the checkpoint a reader of a document gets (state.get("last_success_step", -1))
Checkpoint(doc) ==
    Get(doc, "last_success_step", -1)

\* the events of the caller's call with the given op
Events(p, op) ==
    SelectSeq(trace[p], LAMBDA e : e.op = op)

\* the step indices of a sequence of events or of step results, in order
Indices(s) ==
    [j \in 1 .. Len(s) |-> s[j].index]

\* k-1, k-2, ..., 0
Descending(k) ==
    [j \in 1 .. k |-> k - j]

\* the caller is inside execute, between the first write and the return
InRun(p) ==
    pc[p] \notin {"idle", "get_state", "init_write"}

\* the caller's execute has returned a result with the given status
ReturnedStatus(p, status) ==
    /\ pc[p] = "idle"
    /\ ret[p].op = "execute"
    /\ ret[p].kind = "returned"
    /\ ret[p].value.status = status

\* the state read at the start of the caller's call raised
ReadFailed(p) ==
    Events(p, "read_failed") # <<>>

\* the step of the behaviour resets workflow w: only reset_state leaves the
\* default document (every update_state stamps updated_at)
IsReset(w) ==
    db'[w] = get_default_state

\* a caller is in a call on workflow w whose state read raised
ReadFailedOn(w) ==
    \E p \in Procs :
        workflow_name[p] = w /\ pc[p] # "idle" /\ ReadFailed(p)

(* ------------------------------- C1 ------------------------------------ *)

\* C1: a run that fails at step k calls compensate() on the steps k-1, k-2,
\* ..., 0, in that order and once each, and on no other step, whichever of
\* these calls fail; while the sweep runs the calls made so far are the
\* first ones of that sequence, and a run with no failed step makes none.
C1_CompensationsDescendingOnce ==
    \A p \in Procs :
        LET comp == Indices(Events(p, "compensate")) IN
        /\ pc[p] = "compensate" =>
              comp = [j \in 1 .. (index[p] - 1 - comp_index[p]) |-> index[p] - j]
        /\ pc[p] = "failed_write" => comp = Descending(index[p])
        /\ (pc[p] = "history" /\ execution_result[p].status = "FAILED") =>
              comp = Descending(index[p])
        /\ ReturnedStatus(p, "FAILED") =>
              comp = Descending(ret[p].value.failed_step_index)
        /\ (\/ pc[p] \in {"get_state", "init_write", "loop", "attempt_write",
                          "run", "checkpoint_write", "success_write"}
            \/ pc[p] = "history" /\ execution_result[p].status = "SUCCESS"
            \/ ReturnedStatus(p, "SUCCESS")
            \/ ReturnedStatus(p, "ALREADY_IN_PROGRESS")) =>
              comp = <<>>

\* a run failed at step 2, compensate() of step 1 raised, and step 0 was
\* compensated after it
C1_Witness ==
    /\ ReturnedStatus(Caller, "FAILED")
    /\ ret[Caller].value.failed_step_index = 2
    /\ \E j \in 1 .. Len(trace[Caller]) - 1 :
          /\ trace[Caller][j] = Event("compensate", 1, 0, "compensate_error")
          /\ trace[Caller][j + 1].op = "compensate"
          /\ trace[Caller][j + 1].index = 0

(* ------------------------------- C2 ------------------------------------ *)

\* C2 as claimed: no step of a behaviour other than a reset lowers the
\* persisted last_success_step.
C2_Original ==
    [][\A w \in Workflows :
          IsReset(w) \/ Checkpoint(db'[w]) >= Checkpoint(db[w])]_vars

\* C2, amended: no step of a behaviour lowers the persisted
\* last_success_step, except a reset and except a write of a run whose
\* state read at the start raised (it got the default state and began at
\* step 0).
C2_CheckpointNeverLowered ==
    [][\A w \in Workflows :
          \/ IsReset(w)
          \/ ReadFailedOn(w)
          \/ Checkpoint(db'[w]) >= Checkpoint(db[w])]_vars

\* a second run read a checkpoint, skipped up to it and advanced it
C2_Witness ==
    /\ runs = 2
    /\ pc[Caller] = "loop"
    /\ ~ReadFailed(Caller)
    /\ last_success_step[Caller] >= 0
    /\ Checkpoint(Persisted(Caller)) > last_success_step[Caller]

(* ------------------------------- C3 ------------------------------------ *)

\* the step results of the caller's run so far, or of its returned result
StepsExecuted(p) ==
    IF InRun(p) THEN execution_result[p].steps_executed
    ELSE IF ReturnedStatus(p, "SUCCESS") \/ ReturnedStatus(p, "FAILED")
    THEN ret[p].value.steps_executed
    ELSE <<>>

\* C3 as claimed (its second half): a run with retry = true, begun on a
\* FAILED workflow, calls run() on no step whose index is <= the persisted
\* last_success_step.
C3_Original ==
    \A p \in Procs :
        (retry[p] /\ Get(before[p].doc, "status", None) = "FAILED") =>
            \A j \in 1 .. Len(trace[p]) :
                trace[p][j].op = "run" =>
                    trace[p][j].index > Checkpoint(before[p].doc)

\* C3, amended: in every run the steps recorded so far are the steps 0, 1,
\* ... in order, a step is recorded SKIPPED exactly when its index is <= the
\* last_success_step that get_state returned at the start, run() is called
\* on no such step, a run that returns has recorded every such step, and
\* that value is the persisted one unless the read raised.
C3_SkippedIffCheckpointed ==
    \A p \in Procs :
        LET lss == last_success_step[p]
            done == StepsExecuted(p)
        IN  (InRun(p) \/ ReturnedStatus(p, "SUCCESS")
                      \/ ReturnedStatus(p, "FAILED")) =>
            /\ \A j \in 1 .. Len(done) :
                  /\ done[j].index = j - 1
                  /\ done[j].status = "SKIPPED" <=> j - 1 <= lss
            /\ \A j \in 1 .. Len(trace[p]) :
                  trace[p][j].op = "run" => trace[p][j].index > lss
            /\ ~InRun(p) => \A i \in 0 .. NumSteps - 1 :
                  i <= lss => i < Len(done)
            /\ ~ReadFailed(p) => lss = Checkpoint(before[p].doc)

\* a retry of a FAILED workflow read the checkpoint 0, skipped step 0 and
\* called run() on step 1
C3_Witness ==
    /\ ReturnedStatus(Caller, "SUCCESS") \/ ReturnedStatus(Caller, "FAILED")
    /\ retry[Caller]
    /\ Get(before[Caller].doc, "status", None) = "FAILED"
    /\ ~ReadFailed(Caller)
    /\ Checkpoint(before[Caller].doc) = 0
    /\ ret[Caller].value.steps_executed[1].status = "SKIPPED"
    /\ \E j \in 1 .. Len(trace[Caller]) :
          trace[Caller][j].op = "run" /\ trace[Caller][j].index = 1

(* ------------------------------- C4 ------------------------------------ *)

\* C4 as claimed: a run with retry = true, begun on a FAILED workflow whose
\* state it read, calls compensate() on no step it recorded SKIPPED (stated
\* for the runs in which every store call went through and whose workflow
\* had failed by a step's own error).
C4_Original ==
    \A p \in Procs :
        (/\ retry[p]
         /\ Get(before[p].doc, "status", None) = "FAILED"
         /\ Get(before[p].doc, "error", None) # WriteError
         /\ ~ReadFailed(p)
         /\ Events(p, "write_failed") = <<>>) =>
            \A j \in 1 .. Len(trace[p]) :
                trace[p][j].op = "compensate" =>
                    \A n \in 1 .. Len(StepsExecuted(p)) :
                        StepsExecuted(p)[n].index = trace[p][j].index =>
                            StepsExecuted(p)[n].status # "SKIPPED"

(* ------------------------------- C5 ------------------------------------ *)

\* the call the caller made last was execute(retry = false) on a workflow
\* persisted as IN_PROGRESS, and it is past its state read
PlainCallOnInProgress(p) ==
    /\ ret[p].op = "execute"
    /\ pc[p] # "get_state"
    /\ ~retry[p]
    /\ Get(before[p].doc, "status", None) = "IN_PROGRESS"

\* the call returned ALREADY_IN_PROGRESS and nothing else happened
OnlyAlreadyInProgress(p) ==
    /\ pc[p] = "idle"
    /\ ret[p] = Returned("execute", AlreadyInProgress)
    /\ Persisted(p) = before[p].doc
    /\ history[workflow_name[p]] = before[p].history
    /\ Events(p, "run") = <<>>
    /\ Events(p, "compensate") = <<>>

\* C5 as claimed: execute(retry = false) on a workflow persisted as
\* IN_PROGRESS returns ALREADY_IN_PROGRESS, writes nothing to the state,
\* calls no step and appends no history entry.
C5_Original ==
    \A p \in Procs :
        PlainCallOnInProgress(p) => OnlyAlreadyInProgress(p)

\* C5, amended: the same, provided the state read of the call does not
\* raise.
C5_AlreadyInProgressFrame ==
    \A p \in Procs :
        (PlainCallOnInProgress(p) /\ ~ReadFailed(p)) => OnlyAlreadyInProgress(p)

\* a run was left IN_PROGRESS and a plain execute on it returned
\* ALREADY_IN_PROGRESS
C5_Witness ==
    /\ PlainCallOnInProgress(Caller)
    /\ ~ReadFailed(Caller)
    /\ ReturnedStatus(Caller, "ALREADY_IN_PROGRESS")

(* ------------------------------- C6 ------------------------------------ *)

\* C6 as claimed: a failing update_state ends the run with the exception:
\* no execute goes on past a write that failed.
C6_Original ==
    \A p \in Procs :
        Events(p, "write_failed") # <<>> =>
            /\ pc[p] = "idle"
            /\ ret[p] = Raised("execute", WriteError)

(* ------------------------------- C7 ------------------------------------ *)

\* the attempts of step k that failed in the caller's run
FailedAttempts(p, k) ==
    SelectSeq(trace[p],
              LAMBDA e : /\ e.index = k
                         /\ \/ e.op = "write_failed"
                            \/ e.op = "run" /\ e.error # None)

\* step k used up its retries in the caller's run
Exhausted(p, k) ==
    Len(FailedAttempts(p, k)) = max_retries[p]

\* steps_executed holds one entry for each of the steps 0..k in order, the
\* entry of k FAILED and the earlier ones SUCCESS or SKIPPED
EntriesUpToFailed(se, k) ==
    /\ Len(se) = k + 1
    /\ \A j \in 1 .. Len(se) :
          /\ se[j].index = j - 1
          /\ se[j].step = name(j - 1)
          /\ se[j].status = IF j = k + 1 THEN "FAILED"
                            ELSE IF se[j].status = "SKIPPED" THEN "SKIPPED"
                            ELSE "SUCCESS"

LastAttemptError(p, k) ==
    FailedAttempts(p, k)[Len(FailedAttempts(p, k))].error

\* status, error and failed_step after a run that failed at step k
FailedStateOf(p, k) ==
    /\ Persisted(p).status = "FAILED"
    /\ Persisted(p).error = LastAttemptError(p, k)
    /\ Persisted(p).failed_step = name(k)

\* C8 as claimed: after a run that fails at step k returns, the persisted
\* state has status FAILED, the error of step k's last attempt, failed_step
\* = the name of k, and last_success_step = k - 1.
C8_Original ==
    \A p \in Procs :
        ReturnedStatus(p, "FAILED") =>
            LET k == ret[p].value.failed_step_index IN
            /\ FailedStateOf(p, k)
            /\ Checkpoint(Persisted(p)) = k - 1

\* C8, amended: the same, but last_success_step = k - 1 is stated for the
\* runs whose state read did not raise and for the runs that fail at a step
\* k > 0; a run whose state read raised and that fails at step 0 leaves the
\* last_success_step that was persisted before it.
C8_FailedStatePersisted ==
    \A p \in Procs :
        ReturnedStatus(p, "FAILED") =>
            LET k == ret[p].value.failed_step_index IN
            /\ FailedStateOf(p, k)
            /\ Checkpoint(Persisted(p)) =
                  IF ReadFailed(p) /\ k = 0
                  THEN Checkpoint(before[p].doc)
                  ELSE k - 1

\* a run failed at step 2 after steps 0 and 1 were checkpointed
C8_Witness ==
    /\ ReturnedStatus(Caller, "FAILED")
    /\ ~ReadFailed(Caller)
    /\ ret[Caller].value.failed_step_index = 2
    /\ Persisted(Caller).error = RunError(2, max_retries[Caller])
    /\ Checkpoint(Persisted(Caller)) = 1

(* ------------------------------- C9 ------------------------------------ *)

\* the state and the calls of a run that returned SUCCESS
SuccessStateOf(p) ==
    /\ Persisted(p).status = "SUCCESS"
    /\ Checkpoint(Persisted(p)) = NumSteps - 1
    /\ Events(p, "compensate") = <<>>
    /\ Len(ret[p].value.steps_executed) = NumSteps
    /\ \A j \in 1 .. NumSteps :
          ret[p].value.steps_executed[j].status \in {"SUCCESS", "SKIPPED"}

\* the run appended its result, and nothing else, to the history
AppendedOne(p) ==
    /\ history[workflow_name[p]] = Append(before[p].history, ret[p].value)
    /\ ret[p].value.status = "SUCCESS"

RunsOf(p, i) ==
    SelectSeq(trace[p], LAMBDA e : e.op = "run" /\ e.index = i)

\* C10 as claimed: when run() of a step is called on the attempts 1..a,
\* fails on the attempts 1..a-1 and succeeds on attempt a, run() is called
\* on that step exactly a times in the run, and the step is recorded SUCCESS
\* with attempts = a.
C10_Original ==
    \A p \in Procs : \A i \in 0 .. NumSteps - 1 :
        \A a \in 1 .. Len(RunsOf(p, i)) :
            (/\ RunsOf(p, i)[a].error = None
             /\ \A b \in 1 .. a : RunsOf(p, i)[b].attempt = b
             /\ \A b \in 1 .. a - 1 : RunsOf(p, i)[b].error # None) =>
                /\ Len(RunsOf(p, i)) = a
                /\ Len(StepsExecuted(p)) > i =>
                      /\ StepsExecuted(p)[i + 1].status = "SUCCESS"
                      /\ StepsExecuted(p)[i + 1].attempts = a

(* ------------------------------- C11 ----------------------------------- *)

\* step k is recorded FAILED in the caller's run
RecordedFailed(p, k) ==
    /\ Len(StepsExecuted(p)) > k
    /\ StepsExecuted(p)[k + 1].status = "FAILED"

\* C11 as claimed: no attempt has a number above max_retries, and a step
\* recorded FAILED whose run() was called and raised every time was called
\* exactly max_retries times and is recorded with attempts = max_retries
\* and the message of its last call.
C11_Original ==
    \A p \in Procs :
        /\ \A j \in 1 .. Len(trace[p]) : trace[p][j].attempt <= max_retries[p]
        /\ \A k \in 0 .. NumSteps - 1 :
              (/\ RecordedFailed(p, k)
               /\ RunsOf(p, k) # <<>>
               /\ \A b \in 1 .. Len(RunsOf(p, k)) : RunsOf(p, k)[b].error # None) =>
                  /\ Len(RunsOf(p, k)) = max_retries[p]
                  /\ StepsExecuted(p)[k + 1].attempts = max_retries[p]
                  /\ StepsExecuted(p)[k + 1].error =
                        RunsOf(p, k)[max_retries[p]].error

(* ------------------------------- C12 ----------------------------------- *)

\* the caller's call began on the document reset_state writes: every other
\* write leaves updated_at in the document
BeganOnResetState(p) ==
    before[p].doc = get_default_state

\* the step of the behaviour is the caller's get_status right after its reset
StatusAfterReset(p) ==
    /\ ret[p] = Returned("reset", None)
    /\ ret'[p].op = "get_status"

\* an execute that began on the reset document got last_success_step = -1,
\* recorded no step SKIPPED, called run() for every step it recorded, from
\* step 0 on, and recorded all the steps if it returned SUCCESS
RunsFromStepZero(p) ==
    (ret[p].op = "execute" /\ BeganOnResetState(p)) =>
        /\ pc[p] # "get_state" => last_success_step[p] = -1
        /\ ~ReturnedStatus(p, "ALREADY_IN_PROGRESS")
        /\ \A j \in 1 .. Len(StepsExecuted(p)) :
              /\ StepsExecuted(p)[j].index = j - 1
              /\ StepsExecuted(p)[j].status # "SKIPPED"
              /\ StepsExecuted(p)[j].status = "SUCCESS" => RunsOf(p, j - 1) # <<>>
        /\ ReturnedStatus(p, "SUCCESS") => Len(StepsExecuted(p)) = NumSteps

\* C12: get_status called right after a reset returns the default state and
\* nothing else (status NOT_STARTED, last_success_step -1, current_step and
\* error None, retry_count 0, no field of an earlier run), and the execute
\* that follows a reset runs every step from index 0 and skips none.
C12_ResetGivesDefaultState ==
    /\ [][\A p \in Procs :
            StatusAfterReset(p) =>
                ret'[p] = Returned("get_status", get_default_state)]_vars
    /\ [](\A p \in Procs : RunsFromStepZero(p))

\* a run failed at step 1, the workflow was reset and get_status returned
\* the default state
C12_Witness ==
    /\ ret[Caller] = Returned("get_status", get_default_state)
    /\ BeganOnResetState(Caller)
    /\ Len(history[workflow_name[Caller]]) = 1
    /\ history[workflow_name[Caller]][1].failed_step_index = 1

(* ------------------------------- C13 ----------------------------------- *)

\* the history of the caller's workflow
HistoryOf(p) ==
    history[workflow_name[p]]

\* the caller's call added one entry to the history it found, carrying the
\* status it returned
AppendedEntryOfReturn(p) ==
    /\ Len(HistoryOf(p)) = Len(before[p].history) + 1
    /\ SubSeq(HistoryOf(p), 1, Len(before[p].history)) = before[p].history
    /\ HistoryOf(p)[Len(HistoryOf(p))].status = ret[p].value.status
    /\ HistoryOf(p)[Len(HistoryOf(p))] = ret[p].value

\* the caller's execute is over: it returned or raised
ExecuteOver(p) ==
    pc[p] = "idle" /\ ret[p].op = "execute"

\* C13 as claimed: a call that returns SUCCESS or FAILED has appended
\* exactly one history entry, of the status returned, and a call that
\* returns ALREADY_IN_PROGRESS has appended none.
C13_Original ==
    \A p \in Procs :
        /\ (ReturnedStatus(p, "SUCCESS") \/ ReturnedStatus(p, "FAILED")) =>
              AppendedEntryOfReturn(p)
        /\ ReturnedStatus(p, "ALREADY_IN_PROGRESS") =>
              HistoryOf(p) = before[p].history

\* C13, amended: a call that returns SUCCESS or FAILED has appended exactly
\* one history entry, of the status returned, unless the history add raised,
\* in which case it has appended none; a call that returns
\* ALREADY_IN_PROGRESS, or that raises, has appended none.
C13_HistoryRecordUnlessAddFails ==
    \A p \in Procs :
        /\ (ReturnedStatus(p, "SUCCESS") \/ ReturnedStatus(p, "FAILED")) =>
              IF Events(p, "history_failed") = <<>>
              THEN AppendedEntryOfReturn(p)
              ELSE HistoryOf(p) = before[p].history
        /\ (ExecuteOver(p) /\ ~ReturnedStatus(p, "SUCCESS")
                           /\ ~ReturnedStatus(p, "FAILED")) =>
              HistoryOf(p) = before[p].history

\* two runs failed one after the other and each left its entry
C13_Witness ==
    /\ ReturnedStatus(Caller, "FAILED")
    /\ AppendedEntryOfReturn(Caller)
    /\ Len(HistoryOf(Caller)) = 2
    /\ HistoryOf(Caller)[1].status = "FAILED"

(* ------------------------------- C14 ----------------------------------- *)

\* sequence s is the beginning of sequence t
IsPrefix(s, t) ==
    /\ Len(s) <= Len(t)
    /\ SubSeq(t, 1, Len(s)) = s

\* C14: every step of execute, get_status and reset leaves the history of
\* every workflow as a prefix of the history after it (no entry is changed
\* or removed), at most one entry longer, and a reset call, whether its
\* write goes through or raises, leaves every history as it was.
C14_HistoryAppendOnly ==
    [][/\ \A w \in Workflows :
             /\ IsPrefix(history[w], history'[w])
             /\ Len(history'[w]) <= Len(history[w]) + 1
       /\ \A p \in Procs : reset(p) => history' = history]_vars

\* two runs left their entries and the workflow was then reset: the
\* document is the default one and both entries are still there
C14_Witness ==
    /\ ret[Caller] = Returned("reset", None)
    /\ Persisted(Caller) = get_default_state
    /\ Len(HistoryOf(Caller)) = 2
    /\ before[Caller].history = HistoryOf(Caller)

(* ------------------------------- C15 ----------------------------------- *)

\* the calls of run() on step k that raised, in the caller's run
FailedRuns(p, k) ==
    SelectSeq(RunsOf(p, k), LAMBDA e : e.error # None)

\* the step result of a step some attempt of which failed: FAILED with the
\* message of the last attempt, or SUCCESS after the failed attempts
CapturesFailures(p, k, step_result) ==
    \/ /\ step_result.status = "FAILED"
       /\ step_result.attempts = max_retries[p]
       /\ step_result.error = LastAttemptError(p, k)
    \/ /\ step_result.status = "SUCCESS"
       /\ step_result.attempts = Len(FailedAttempts(p, k)) + 1

\* C15: an execute raises nothing but the error of a state write; a run in
\* which run() of a step raised goes on (retry, next step, compensation,
\* terminal write) and, unless a state write then raises out of it, returns
\* a result whose entry for that step holds the failure: FAILED with the
\* message of the last attempt, or SUCCESS with the failed attempts counted.
C15_StepFailuresCaptured ==
    \A p \in Procs :
        /\ (ret[p].op = "execute" /\ ret[p].kind = "raised") =>
              ret[p].value = WriteError
        /\ \A k \in 0 .. NumSteps - 1 :
              FailedRuns(p, k) # <<>> =>
                  /\ ExecuteOver(p) =>
                        \/ ReturnedStatus(p, "SUCCESS")
                        \/ ReturnedStatus(p, "FAILED")
                        \/ ret[p] = Raised("execute", WriteError)
                  /\ (ReturnedStatus(p, "SUCCESS") \/ ReturnedStatus(p, "FAILED")) =>
                        Len(StepsExecuted(p)) > k
                  /\ Len(StepsExecuted(p)) > k =>
                        CapturesFailures(p, k, StepsExecuted(p)[k + 1])

\* run() of step 1 raised on both attempts and execute returned FAILED with
\* the second message in the step's result
C15_Witness ==
    /\ ReturnedStatus(Caller, "FAILED")
    /\ max_retries[Caller] = 2
    /\ Len(FailedRuns(Caller, 1)) = 2
    /\ ret[Caller].value.steps_executed[2].error = RunError(1, 2)

(* ------------------------------- C16 ----------------------------------- *)

\* the calls of compensate() that raised, in the caller's run
FailedCompensations(p) ==
    SelectSeq(trace[p], LAMBDA e : e.op = "compensate" /\ e.error # None)

\* the attempts of the caller's run: what is left of the calls it made when
\* the calls of compensate() are taken out
Attempts(p) ==
    SelectSeq(trace[p], LAMBDA e : e.op \in {"run", "write_failed"})

\* the step the run failed at: the step of its last attempt
FailedAt(p) ==
    Attempts(p)[Len(Attempts(p))].index

\* the last_success_step the run began with
ResumePoint(p) ==
    IF ReadFailed(p) THEN -1 ELSE Checkpoint(before[p].doc)

\* the result of a run that failed at step k, from its resume point and its
\* attempts alone
ExpectedFailedResult(p, k) ==
    [status |-> "FAILED",
     steps_executed |->
        [j \in 1 .. k + 1 |->
            IF j - 1 <= ResumePoint(p) THEN SkippedResult(j - 1)
            ELSE IF j - 1 < k
            THEN SuccessResult(j - 1, Len(FailedAttempts(p, j - 1)))
            ELSE FailedResult(k, max_retries[p] - 1, LastAttemptError(p, k))],
     errors |-> <<>>,
     failed_step |-> name(k),
     failed_step_index |-> k,
     created_at |-> "ts"]

\* C16: the outcome of a run that returns FAILED is fixed by its resume
\* point and its attempts, whatever its compensate() calls did: the result
\* returned, the persisted status, error, failed_step and last_success_step,
\* and the history entry (appended unless the history add raised) are the
\* ones computed with the compensate() calls left out; and a run in which a
\* compensate() raised ends by returning FAILED, or by raising the error of
\* the FAILED state write, never the compensation's error.
C16_CompensationFailureNoEffect ==
    \A p \in Procs :
        /\ ReturnedStatus(p, "FAILED") =>
              LET k == FailedAt(p) IN
              /\ ret[p].value = ExpectedFailedResult(p, k)
              /\ FailedStateOf(p, k)
              /\ Checkpoint(Persisted(p)) =
                    IF ResumePoint(p) > k - 1 THEN ResumePoint(p)
                    ELSE IF k = 0 THEN Checkpoint(before[p].doc)
                    ELSE k - 1
              /\ HistoryOf(p) =
                    IF Events(p, "history_failed") = <<>>
                    THEN Append(before[p].history, ExpectedFailedResult(p, k))
                    ELSE before[p].history
        /\ (FailedCompensations(p) # <<>> /\ ExecuteOver(p)) =>
              \/ ReturnedStatus(p, "FAILED")
              \/ ret[p] = Raised("execute", WriteError)

\* a run failed at step 2, one of its two compensate() calls raised, and
\* the FAILED result was returned and appended to the history
C16_Witness ==
    /\ ReturnedStatus(Caller, "FAILED")
    /\ FailedAt(Caller) = 2
    /\ Len(Events(Caller, "compensate")) = 2
    /\ Len(FailedCompensations(Caller)) = 1
    /\ HistoryOf(Caller) = Append(before[Caller].history, ret[Caller].value)

(* ------------------------------- C17 ----------------------------------- *)

\* the status a reader of the document gets (NOT_STARTED with no document)
StatusOf(doc) ==
    Get(doc, "status", "NOT_STARTED")

\* a caller on workflow w called execute(retry = true) and is at its first
\* write
RetryAtFirstWrite(w) ==
    \E p \in Procs :
        workflow_name[p] = w /\ pc[p] = "init_write" /\ retry[p]

\* C17 as claimed: the persisted status changes only from NOT_STARTED to
\* IN_PROGRESS, from IN_PROGRESS to SUCCESS or FAILED, from FAILED to
\* IN_PROGRESS by the first write of an execute(retry = true), and by a
\* reset; in particular no execute takes it out of SUCCESS (stated for the
\* behaviours in which no call on the store or on a step fails).
C17_Original ==
    [][\A w \in Workflows :
          LET s == StatusOf(db[w])
              t == StatusOf(db'[w])
          IN  \/ failures' > 0
              \/ t = s
              \/ IsReset(w)
              \/ s = "NOT_STARTED" /\ t = "IN_PROGRESS"
              \/ s = "IN_PROGRESS" /\ t \in {"SUCCESS", "FAILED"}
              \/ s = "FAILED" /\ t = "IN_PROGRESS" /\ RetryAtFirstWrite(w)]_vars

(* ------------------- two callers on the same workflow ------------------ *)

\* two requests call execute(retry = false) on the same workflow; their
\* calls interleave at the calls on the store and on the steps
NextConc ==
    \E p \in Procs :
        \/ execute(p, FALSE, max_retries[p])
        \/ ReadState(p)
        \/ InitWrite(p)
        \/ NextStep(p)
        \/ AttemptWrite(p)
        \/ RunStep(p)
        \/ CheckpointWrite(p)
        \/ Compensate(p)
        \/ FailedWrite(p)
        \/ SuccessWrite(p)
        \/ SaveHistory(p)

\* as Init, with one call on the store or on a step left to fail
InitConc ==
    /\ db = [w \in Workflows |-> NoDocument]
    /\ history = [w \in Workflows |-> <<>>]
    /\ workflow_name = [p \in Procs |-> "daily_data_analysis"]
    /\ \E m \in RetryChoices : max_retries = [p \in Procs |-> m]
    /\ pc = [p \in Procs |-> "idle"]
    /\ retry = [p \in Procs |-> FALSE]
    /\ last_success_step = [p \in Procs |-> -1]
    /\ retry_count = [p \in Procs |-> 0]
    /\ index = [p \in Procs |-> 0]
    /\ attempt = [p \in Procs |-> 0]
    /\ comp_index = [p \in Procs |-> 0]
    /\ execution_result = [p \in Procs |-> NewExecutionResult]
    /\ ret = [p \in Procs |-> NoCall]
    /\ trace = [p \in Procs |-> <<>>]
    /\ before = [p \in Procs |-> [doc |-> NoDocument, history |-> <<>>,
                                   runs |-> 0, inflight |-> {},
                                   crashed |-> FALSE, accepted |-> FALSE]]
    /\ runs = 0
    /\ failures = MaxFailures - 1

SpecConc ==
    InitConc /\ [][NextConc]_vars

(* ------------------------------- C18 ----------------------------------- *)

\* the step of the behaviour is the state read of caller p, the read going
\* through, in a call with retry = false on a document that says IN_PROGRESS
ReadsInProgress(p) ==
    /\ pc[p] = "get_state"
    /\ pc'[p] # "get_state"
    /\ trace'[p] = trace[p]
    /\ ~retry[p]
    /\ StatusOf(Persisted(p)) = "IN_PROGRESS"

\* the execute of p overlaps another call on its workflow: one that was in
\* flight when it began, or an execute that began after it
Overlapped(p) ==
    \/ before[p].inflight # {}
    \/ runs > before[p].runs + 1

\* the step of the behaviour is a checkpoint write of caller p that lowers
\* the persisted last_success_step
LowersCheckpoint(p) ==
    /\ pc[p] = "checkpoint_write"
    /\ db' # db
    /\ Checkpoint(db'[workflow_name[p]]) < Checkpoint(Persisted(p))

\* C18: the guard is a plain read followed, in a later step, by the write
\* of IN_PROGRESS.  A call with retry = false whose read sees IN_PROGRESS
\* returns ALREADY_IN_PROGRESS, but nothing holds back a caller that read
\* before the other one wrote: a checkpoint write lowers the persisted
\* last_success_step only when the writer's read raised or when the
\* writer's call overlaps another call on the same workflow.  (The state in
\* which both callers are running steps and last_success_step has gone down
\* is C18_Witness.)
C18_GuardIsReadThenAct ==
    [][\A p \in Procs :
          /\ ReadsInProgress(p) =>
                ret'[p] = Returned("execute", AlreadyInProgress)
          /\ LowersCheckpoint(p) => ReadFailed(p) \/ Overlapped(p)]_vars

\* both callers read a state that was not IN_PROGRESS and went on, both
\* called run() of step 0, p1 checkpointed step 1 and p2 then wrote
\* last_success_step = 0
C18_Witness ==
    /\ InRun("p1") /\ InRun("p2")
    /\ ~retry["p1"] /\ ~retry["p2"]
    /\ failures = MaxFailures - 1
    /\ last_success_step["p1"] = -1 /\ last_success_step["p2"] = -1
    /\ RunsOf("p1", 0) = <<Event("run", 0, 1, None)>>
    /\ RunsOf("p2", 0) = <<Event("run", 0, 1, None)>>
    /\ RunsOf("p1", 1) = <<Event("run", 1, 1, None)>>
    /\ pc["p1"] = "loop" /\ index["p1"] = 2
    /\ pc["p2"] = "loop" /\ index["p2"] = 1
    /\ Checkpoint(Persisted("p1")) = 0

(* ------------------------------- C19 ----------------------------------- *)

\* the messages the caller of execute gets: the exception raised, or the
\* errors recorded in the result returned
ReportedErrors(p) ==
    IF ret[p].kind = "raised" THEN {ret[p].value}
    ELSE IF ReturnedStatus(p, "SUCCESS") \/ ReturnedStatus(p, "FAILED")
    THEN {ret[p].value.errors[j] : j \in 1 .. Len(ret[p].value.errors)}
         \cup {Get(ret[p].value.steps_executed[j], "error", None) :
                  j \in 1 .. Len(ret[p].value.steps_executed)}
    ELSE {}

\* C19: an execute whose state read raised goes on with the default state:
\* it has last_success_step = -1 and retry_count = 0 whatever is persisted
\* and whatever retry is, it does not return ALREADY_IN_PROGRESS, it records
\* the steps from 0 on with none SKIPPED, its first attempt is one of step 0
\* and every step it records SUCCESS it has called run() on, and neither
\* the exception it may raise nor the result it returns mentions the read
\* error.
C19_ReadFailureGivesDefault ==
    \A p \in Procs :
        (ret[p].op = "execute" /\ ReadFailed(p)) =>
            /\ pc[p] # "idle" =>
                  last_success_step[p] = -1 /\ retry_count[p] = 0
            /\ ~ReturnedStatus(p, "ALREADY_IN_PROGRESS")
            /\ \A j \in 1 .. Len(StepsExecuted(p)) :
                  /\ StepsExecuted(p)[j].index = j - 1
                  /\ StepsExecuted(p)[j].status # "SKIPPED"
            /\ \A j \in 1 .. Len(StepsExecuted(p)) :
                  StepsExecuted(p)[j].status = "SUCCESS" => RunsOf(p, j - 1) # <<>>
            /\ Attempts(p) # <<>> => Attempts(p)[1].index = 0
            /\ ReadError \notin ReportedErrors(p)

\* a run was left IN_PROGRESS with steps checkpointed; the read of the next
\* plain execute raised and the call went on to run step 0
C19_Witness ==
    /\ ReadFailed(Caller)
    /\ ~retry[Caller]
    /\ StatusOf(before[Caller].doc) = "IN_PROGRESS"
    /\ Checkpoint(before[Caller].doc) >= 0
    /\ RunsOf(Caller, 0) # <<>>

(* ------------------------------- C20 ----------------------------------- *)

\* the result of a run that went through all the steps, from its resume
\* point and its attempts alone
ExpectedSuccessResult(p) ==
    [status |-> "SUCCESS",
     steps_executed |->
        [j \in 1 .. NumSteps |->
            IF j - 1 <= ResumePoint(p) THEN SkippedResult(j - 1)
            ELSE SuccessResult(j - 1, Len(FailedAttempts(p, j - 1)))],
     errors |-> <<>>,
     created_at |-> "ts"]

\* the history add of the caller's run raised
HistoryAddFailed(p) ==
    Events(p, "history_failed") # <<>>

\* C20: a run whose history add raised has returned all the same, with
\* status SUCCESS or FAILED, the persisted status is the terminal status it
\* wrote and returned, and the history is the one the run found; and the
\* result a run returns is the same function of its resume point and
\* attempts whether the add went through or raised.
C20_HistoryFailureSwallowed ==
    \A p \in Procs :
        /\ HistoryAddFailed(p) =>
              /\ ReturnedStatus(p, "SUCCESS") \/ ReturnedStatus(p, "FAILED")
              /\ StatusOf(Persisted(p)) = ret[p].value.status
              /\ HistoryOf(p) = before[p].history
        /\ ReturnedStatus(p, "SUCCESS") => ret[p].value = ExpectedSuccessResult(p)
        /\ ReturnedStatus(p, "FAILED") =>
              ret[p].value = ExpectedFailedResult(p, FailedAt(p))

\* a second run failed at step 1, wrote FAILED, and its history add raised:
\* it returned FAILED and the history still holds the first run's entry only
C20_Witness ==
    /\ HistoryAddFailed(Caller)
    /\ ReturnedStatus(Caller, "FAILED")
    /\ Persisted(Caller).failed_step = name(1)
    /\ Len(HistoryOf(Caller)) = 1

(* ------------------------------- C21 ----------------------------------- *)

\* the retry_count a reader of a document gets (state.get("retry_count", 0))
RetryCountOf(doc) ==
    Get(doc, "retry_count", 0)

\* the retry_count the caller's execute has to write: the one persisted
\* when the call began if retry is true, 0 otherwise
CarriedRetryCount(p) ==
    IF retry[p] THEN RetryCountOf(before[p].doc) ELSE 0

\* C21: an execute that has read the state holds the persisted retry_count
\* if retry is true and 0 if it is false, from its first write on that value
\* is the persisted one, and no step of any operation raises the persisted
\* retry_count.
C21_RetryCountCarried ==
    /\ [](\A p \in Procs :
            /\ (ret[p].op = "execute" /\ pc[p] \notin {"idle", "get_state"}) =>
                  retry_count[p] = CarriedRetryCount(p)
            /\ InRun(p) => RetryCountOf(Persisted(p)) = CarriedRetryCount(p))
    /\ [][\A w \in Workflows :
            RetryCountOf(db'[w]) <= RetryCountOf(db[w])]_vars

\* a FAILED workflow is being retried and its retry_count is what it was
C21_Witness ==
    /\ InRun(Caller)
    /\ retry[Caller]
    /\ StatusOf(before[Caller].doc) = "FAILED"
    /\ "retry_count" \in DOMAIN before[Caller].doc
    /\ Persisted(Caller).retry_count = before[Caller].doc.retry_count

(* --------------------------- process crash ----------------------------- *)

\* the process running the caller's execute dies: the call is over, its
\* locals are gone, what it wrote to the store stays
Crash(p) ==
    /\ pc[p] # "idle"
    /\ Finish(p, Crashed("execute"))
    /\ UNCHANGED <<store_vars, config_vars, retry, last_success_step,
                   retry_count, trace, before, runs, failures>>

\* one caller whose process may die inside execute
NextCrash ==
    \/ Next
    \/ Crash(Caller)

\* at most one call on the store or on a step fails
SpecCrash ==
    InitConc /\ [][NextCrash]_vars

(* ------------------------------- C22 ----------------------------------- *)

\* the caller called execute(retry = true) right after its run was cut
\* short by a crash that left the workflow IN_PROGRESS, and the call is
\* past its state read
ResumesAfterCrash(p) ==
    /\ ret[p].op = "execute"
    /\ pc[p] # "get_state"
    /\ retry[p]
    /\ before[p].crashed
    /\ StatusOf(before[p].doc) = "IN_PROGRESS"

\* the run skips the steps up to the last_success_step persisted when it
\* began, and no other, and its first attempt is one of the step after it
ResumesFromCheckpoint(p) ==
    /\ ret[p] # Returned("execute", AlreadyInProgress)
    /\ \A j \in 1 .. Len(StepsExecuted(p)) :
          /\ StepsExecuted(p)[j].index = j - 1
          /\ StepsExecuted(p)[j].status = "SKIPPED" <=>
                j - 1 <= Checkpoint(before[p].doc)
    /\ Attempts(p) # <<>> =>
          Attempts(p)[1].index = Checkpoint(before[p].doc) + 1

\* a run that returned left the status it returned, SUCCESS or FAILED
ReturnedTerminal(p) ==
    /\ ReturnedStatus(p, "SUCCESS") \/ ReturnedStatus(p, "FAILED")
    /\ StatusOf(Persisted(p)) = ret[p].value.status

\* the caller's execute ended in a terminal state, or raised the error of a
\* state write, or was cut short in its turn
EndsTerminalOrRaises(p) ==
    ExecuteOver(p) =>
        \/ ReturnedTerminal(p)
        \/ ret[p] = Raised("execute", WriteError)
        \/ ret[p] = Crashed("execute")

\* C22 as claimed: an execute(retry = true) after a crash skips exactly the
\* steps with index <= the persisted last_success_step, executes the step
\* after it first, and ends with the workflow SUCCESS or FAILED (a call
\* that raises the error of a state write, or crashes again, aside).
C22_Original ==
    \A p \in Procs :
        ResumesAfterCrash(p) =>
            ResumesFromCheckpoint(p) /\ EndsTerminalOrRaises(p)

\* C22, amended: the same, provided the state read of the resuming call
\* does not raise; when it raises the run begins at step 0 and skips
\* nothing, and ends in the same ways.
C22_ResumeAfterCrash ==
    \A p \in Procs :
        ResumesAfterCrash(p) =>
            /\ EndsTerminalOrRaises(p)
            /\ IF ReadFailed(p)
               THEN \A j \in 1 .. Len(StepsExecuted(p)) :
                        StepsExecuted(p)[j].status # "SKIPPED"
               ELSE ResumesFromCheckpoint(p)

\* the process died after step 0 was checkpointed; the retry skipped step
\* 0, began with step 1 and made the workflow SUCCESS
C22_Witness ==
    /\ ResumesAfterCrash(Caller)
    /\ ~ReadFailed(Caller)
    /\ Checkpoint(before[Caller].doc) = 0
    /\ ReturnedTerminal(Caller)
    /\ ret[Caller].value.status = "SUCCESS"
    /\ Attempts(Caller)[1].index = 1

(* ------------------------------- C23 ----------------------------------- *)

\* the next step of the caller's execute: each call it makes on the store
\* or on a step returns or raises
Proceed(p) ==
    \/ ReadState(p)
    \/ InitWrite(p)
    \/ NextStep(p)
    \/ AttemptWrite(p)
    \/ RunStep(p)
    \/ CheckpointWrite(p)
    \/ Compensate(p)
    \/ FailedWrite(p)
    \/ SuccessWrite(p)
    \/ SaveHistory(p)

\* execute is called again and again, and every call made inside it comes
\* back
NextLive ==
    \/ \E r \in BOOLEAN : execute(Caller, r, max_retries[Caller])
    \/ Proceed(Caller)

SpecLive ==
    Init /\ [][NextLive]_vars /\ WF_vars(Proceed(Caller))

\* the calls of run() and of compensate() of the caller's run are within
\* their bounds, and a run that is over has left SUCCESS or FAILED, which it
\* returned, or has raised the error of a state write
BoundedRun(p) ==
    /\ Len(Events(p, "run")) <= NumSteps * max_retries[p]
    /\ Len(Events(p, "compensate")) <= NumSteps - 1
    /\ (ExecuteOver(p) /\ ret[p] # Returned("execute", AlreadyInProgress)) =>
          \/ ReturnedTerminal(p)
          \/ ret[p] = Raised("execute", WriteError)

\* C23: an execute that is past the guard comes to its end, having called
\* run() at most NumSteps * max_retries times and compensate() at most
\* NumSteps - 1 times, and at its end it has returned with the persisted
\* status SUCCESS or FAILED or has raised the error of a state write.
C23_RunTerminates ==
    /\ [](\A p \in Procs : BoundedRun(p))
    /\ \A p \in Procs : (pc[p] = "init_write") ~> (pc[p] = "idle")

\* a run that retried a step once is over and left SUCCESS
C23_Witness ==
    /\ ReturnedTerminal(Caller)
    /\ ret[Caller].value.status = "SUCCESS"
    /\ Len(Events(Caller, "run")) = NumSteps + 1

(* ------------------- two callers on two workflows ---------------------- *)

\* as InitConc, with the second caller's orchestrator built for another
\* workflow name
InitIso ==
    /\ db = [w \in Workflows |-> NoDocument]
    /\ history = [w \in Workflows |-> <<>>]
    /\ workflow_name = [p \in Procs |->
                           IF p = Caller THEN "daily_data_analysis"
                           ELSE "other_workflow"]
    /\ \E m \in RetryChoices : max_retries = [p \in Procs |-> m]
    /\ pc = [p \in Procs |-> "idle"]
    /\ retry = [p \in Procs |-> FALSE]
    /\ last_success_step = [p \in Procs |-> -1]
    /\ retry_count = [p \in Procs |-> 0]
    /\ index = [p \in Procs |-> 0]
    /\ attempt = [p \in Procs |-> 0]
    /\ comp_index = [p \in Procs |-> 0]
    /\ execution_result = [p \in Procs |-> NewExecutionResult]
    /\ ret = [p \in Procs |-> NoCall]
    /\ trace = [p \in Procs |-> <<>>]
    /\ before = [p \in Procs |-> [doc |-> NoDocument, history |-> <<>>,
                                   runs |-> 0, inflight |-> {},
                                   crashed |-> FALSE, accepted |-> FALSE]]
    /\ runs = 0
    /\ failures = MaxFailures - 1

\* the calls of the two callers interleave at the calls on the store and on
\* the steps; the first caller also resets its workflow
NextIso ==
    \/ \E p \in Procs :
          \/ \E r \in BOOLEAN : execute(p, r, max_retries[p])
          \/ Proceed(p)
    \/ reset(Caller)

SpecIso ==
    InitIso /\ [][NextIso]_vars

(* ------------------------------- C24 ----------------------------------- *)

\* what caller p holds: its position, its locals and the record of its call
Holds(p) ==
    <<pc[p], ret[p], trace[p], before[p], retry[p], last_success_step[p],
      retry_count[p], index[p], attempt[p], comp_index[p], execution_result[p]>>

\* the step of the behaviour is one of caller p
Moves(p) ==
    Holds(p)' # Holds(p)

\* the call of p went as it goes with nobody else around: it resumed from
\* the checkpoint of its own workflow, the status of its workflow is
\* IN_PROGRESS while it is between its first and its terminal write, and at
\* its end the result, the persisted status and the history are the ones
\* computed from its own resume point and attempts
AsIfAlone(p) ==
    /\ (ret[p].op = "execute" /\ pc[p] \notin {"idle", "get_state"}) =>
          last_success_step[p] = ResumePoint(p)
    /\ (InRun(p) /\ pc[p] # "history") =>
          StatusOf(Persisted(p)) = "IN_PROGRESS"
    /\ EndsTerminalOrRaises(p) \/ ret[p] = Returned("execute", AlreadyInProgress)
    /\ ReturnedStatus(p, "SUCCESS") => ret[p].value = ExpectedSuccessResult(p)
    /\ ReturnedStatus(p, "FAILED") =>
          ret[p].value = ExpectedFailedResult(p, FailedAt(p))
    /\ ExecuteOver(p) =>
          HistoryOf(p) =
             IF ReturnedTerminal(p) /\ ~HistoryAddFailed(p)
             THEN Append(before[p].history, ret[p].value)
             ELSE before[p].history

\* C24: with two callers on two workflow names, a step of one caller leaves
\* the document and the history of every other workflow as they were, and
\* each caller's call goes as it goes alone.
C24_WorkflowsIsolated ==
    /\ [][\A p \in Procs : \A w \in Workflows \ {workflow_name[p]} :
            Moves(p) => db'[w] = db[w] /\ history'[w] = history[w]]_vars
    /\ [](\A p \in Procs : AsIfAlone(p))

\* the two runs are under way together, each with the checkpoint of its
\* own steps in its own document
C24_Witness ==
    /\ workflow_name["p1"] # workflow_name["p2"]
    /\ pc["p1"] = "loop" /\ index["p1"] = 1
    /\ pc["p2"] = "loop" /\ index["p2"] = 2
    /\ Checkpoint(Persisted("p1")) = 0
    /\ Checkpoint(Persisted("p2")) = 1

(* ------------------------------- C25 ----------------------------------- *)

\* OkResponse, with a FAILED result answered as a server error
OkResponse_FailedIsServerError(result) ==
    [status_code |-> IF result.status = "FAILED" THEN 500 ELSE 200,
     content |-> result]

\* the response of run_analysis to a synchronous request whose
\* execute_workflow returned result: the result is the body
OkResponse(result) ==
    [status_code |-> 200, content |-> result]

\* the response of run_analysis to a synchronous request whose
\* execute_workflow raised e
ServerErrorResponse(e) ==
    [status_code |-> 500, detail |-> <<"Workflow execution failed: ", e>>]

\* POST /run-analysis with async_execution: execute_workflow is queued as a
\* background task and 202 is answered at once; the task starts afterwards
run_analysis_async(p) ==
    /\ pc[p] = "idle"
    /\ runs < MaxRuns
    /\ ret' = [ret EXCEPT ![p] = Returned("run_analysis", AcceptedResponse)]
    /\ UNCHANGED <<store_vars, pc, workflow_name, max_retries, retry,
                   last_success_step, retry_count, index, attempt,
                   comp_index, execution_result, failures, runs, trace,
                   before>>

\* POST /run-analysis without async_execution, once the awaited
\* execute_workflow is over: its result is returned, its exception becomes
\* an HTTPException with status 500
run_analysis(p) ==
    /\ pc[p] = "idle"
    /\ ret[p].op = "execute"
    /\ ret[p].kind \in {"returned", "raised"}
    /\ ~before[p].accepted
    /\ ret' = [ret EXCEPT ![p] =
                  Returned("run_analysis",
                           IF ret[p].kind = "returned"
                           THEN OkResponse(ret[p].value)
                           ELSE ServerErrorResponse(ret[p].value))]
    /\ UNCHANGED <<store_vars, pc, workflow_name, max_retries, retry,
                   last_success_step, retry_count, index, attempt,
                   comp_index, execution_result, failures, runs, trace,
                   before>>

\* requests of both kinds arrive one after the other, and every call made
\* inside execute comes back
NextHttp ==
    \/ run_analysis_async(Caller)
    \/ \E r \in BOOLEAN : execute(Caller, r, max_retries[Caller])
    \/ Proceed(Caller)
    \/ run_analysis(Caller)

SpecHttp ==
    InitConc /\ [][NextHttp]_vars

\* the run of p is over and was started by a request answered with 202
\* before it began
AnsweredBeforeRun(p) ==
    /\ ExecuteOver(p)
    /\ before[p].accepted

\* C25 as stated, for synchronous and background runs alike: no run that
\* returned FAILED and no run that raised belongs to a request that was
\* answered with anything but the FAILED body or a 500
C25_Original ==
    \A p \in Procs :
        (ReturnedStatus(p, "FAILED") \/ ret[p].kind = "raised")
            => ~AnsweredBeforeRun(p)

\* C25: the response to a synchronous request carries the FAILED result of
\* its run with status 200, and is a 500 when execute raised; 202 is
\* answered only while the caller's run has not begun, and no response
\* follows the end of a background run
C25_SynchronousRunsMapped ==
    [][\A p \in Procs :
          (ret'[p].op = "run_analysis" /\ ret'[p] # ret[p])
             => IF ret'[p].value = AcceptedResponse
                THEN pc[p] = "idle" /\ pc'[p] = "idle"
                ELSE /\ ExecuteOver(p)
                     /\ ~before[p].accepted
                     /\ ReturnedStatus(p, "FAILED")
                           => ret'[p].value =
                                 [status_code |-> 200,
                                  content |-> ret[p].value]
                     /\ ret[p].kind = "raised"
                           => /\ ret'[p].value.status_code = 500
                              /\ ret'[p].value.detail[2] = ret[p].value]_vars

\* a synchronous request was answered 200 with the FAILED result of its run
C25_Witness ==
    /\ ret[Caller].op = "run_analysis"
    /\ ret[Caller].value.status_code = 200
    /\ ret[Caller].value.content.status = "FAILED"
    /\ ~before[Caller].accepted

(* ------------------------------- C26 ----------------------------------- *)

\* the calls of run() of the caller's run, in the order they were made
RunCalls(p) ==
    Events(p, "run")

\* the steps before step i are recorded in the run's result, each as
\* SUCCESS or SKIPPED
EarlierStepsDone(p, i) ==
    /\ Len(StepsExecuted(p)) >= i
    /\ \A k \in 1 .. i : StepsExecuted(p)[k].status \in {"SUCCESS", "SKIPPED"}

\* C26: the indices of the calls of run() of a run never go down; two calls
\* on the same index are next to each other, the second with a higher
\* attempt number of the same step; and while the run's result is held
\* (in the run, or returned), every step before a step that was run is
\* recorded SUCCESS or SKIPPED. A call of run() is made on the step right
\* after the ones recorded.
C26_StepsInDeclaredOrder ==
    /\ [](\A p \in Procs :
            /\ \A j \in 1 .. Len(RunCalls(p)) - 1 :
                  /\ RunCalls(p)[j].index <= RunCalls(p)[j + 1].index
                  /\ RunCalls(p)[j].index = RunCalls(p)[j + 1].index
                        => RunCalls(p)[j].attempt
                              < RunCalls(p)[j + 1].attempt
            /\ (InRun(p) \/ ReturnedStatus(p, "SUCCESS")
                         \/ ReturnedStatus(p, "FAILED"))
                  => \A j \in 1 .. Len(RunCalls(p)) :
                        EarlierStepsDone(p, RunCalls(p)[j].index))
    /\ [][\A p \in Procs :
            Len(Events(p, "run"))' > Len(Events(p, "run"))
               => /\ Len(execution_result[p].steps_executed) = index[p]
                  /\ (Events(p, "run")')[Len(Events(p, "run")')].index
                        = index[p]]_vars

\* step 0 was run twice and step 1 once after it, step 2 being run now
C26_Witness ==
    /\ pc[Caller] = "checkpoint_write"
    /\ Indices(RunCalls(Caller)) = <<0, 0, 1, 2>>

(* ------------------------------- C27 ----------------------------------- *)

\* the calls of compensate() of the caller's run, by step index
Compensations(p) ==
    Indices(Events(p, "compensate"))

\* the last attempt of the caller's run failed
LastAttemptFailed(p) ==
    /\ Attempts(p) # <<>>
    /\ Attempts(p)[Len(Attempts(p))].error # None

\* C27: while the compensations of a run are driven its persisted status is
\* IN_PROGRESS and nothing of the run is in the history; every call of
\* compensate() comes after the last attempt, which failed, and no attempt
\* comes after it; FAILED is written only when the calls on k-1, ..., 0 are
\* all made, with the history still as the run found it; an entry of a failed
\* run is appended only with FAILED persisted, and the call returns with
\* that append, made or failed.
C27_CompensateThenPersistThenHistory ==
    /\ [](\A p \in Procs :
            /\ pc[p] = "compensate"
                  => /\ StatusOf(db[workflow_name[p]]) = "IN_PROGRESS"
                     /\ history[workflow_name[p]] = before[p].history
                     /\ LastAttemptFailed(p)
            /\ \A j \in 1 .. Len(trace[p]) - 1 :
                  trace[p][j].op = "compensate"
                     => trace[p][j + 1].op \in {"compensate", "history_failed"})
    /\ [][\A w \in Workflows :
            (StatusOf(db[w]) # "FAILED" /\ StatusOf(db'[w]) = "FAILED")
               => \E p \in Procs :
                     /\ workflow_name[p] = w
                     /\ pc[p] = "failed_write"
                     /\ pc'[p] = "history"
                     /\ Compensations(p) = Descending(FailedAt(p))
                     /\ history[w] = before[p].history]_vars
    /\ [][\A p \in Procs :
            LET w == workflow_name[p] IN
            /\ (pc[p] = "history" /\ execution_result[p].status = "FAILED")
                  => /\ StatusOf(db[w]) = "FAILED"
                     /\ history[w] = before[p].history
                     /\ \/ history'[w] = Append(history[w], ret'[p].value)
                        \/ /\ history'[w] = history[w]
                           /\ HistoryAddFailed(p)'
                     /\ ReturnedStatus(p, "FAILED")'
            /\ (~ReturnedStatus(p, "FAILED") /\ ReturnedStatus(p, "FAILED")')
                  => pc[p] = "history"]_vars

\* step 2 failed and compensate() was called on step 1, not yet on step 0:
\* the persisted status is IN_PROGRESS
C27_Witness ==
    /\ pc[Caller] = "compensate"
    /\ Compensations(Caller) = <<1>>
    /\ StatusOf(db[workflow_name[Caller]]) = "IN_PROGRESS"

(* ------------------------------- C28 ----------------------------------- *)

\* no read and no write of the state has failed in the caller's run so far
\* (in the state after the step, when primed)
NoStoreFailure(p) ==
    /\ Events(p, "read_failed") = <<>>
    /\ Events(p, "write_failed") = <<>>

\* the call of run() made last in the caller's run
LastRunCall(p) ==
    RunCalls(p)[Len(RunCalls(p))]

\* C28: in a run no read or write of which has failed, at every call of
\* run(), on step i as attempt a, the persisted state has status
\* IN_PROGRESS, current_step the name of step i, current_step_index i,
\* current_step_attempt a, with 1 <= a <= max_retries, and a
\* last_success_step (-1 when the document has none) of i - 1.
C28_ProgressPersistedBeforeAttempt ==
    [][\A p \in Procs :
          (Len(RunCalls(p))' > Len(RunCalls(p)) /\ NoStoreFailure(p)')
             => LET state == db[workflow_name[p]]
                    i == LastRunCall(p)'.index
                    a == LastRunCall(p)'.attempt
                IN  /\ StatusOf(state) = "IN_PROGRESS"
                    /\ Get(state, "current_step", None) = name(i)
                    /\ Get(state, "current_step_index", None) = i
                    /\ Get(state, "current_step_attempt", None) = a
                    /\ 1 <= a /\ a <= max_retries[p]
                    /\ Checkpoint(state) = i - 1]_vars

\* run() was called on step 1 for the second time, after step 0, in a run
\* with no store failure
C28_Witness ==
    /\ NoStoreFailure(Caller)
    /\ Indices(RunCalls(Caller)) = <<0, 1, 1>>
    /\ LastRunCall(Caller).attempt = 2
    /\ Checkpoint(db[workflow_name[Caller]]) = 0

(* ------------------------------- C29 ----------------------------------- *)

\* the error field of a state document, as its readers see it
ErrorOf(doc) ==
    Get(doc, "error", None)

\* C29: a persisted state with status IN_PROGRESS or SUCCESS has no error
\* and one with status FAILED has one; a write that leaves status FAILED is
\* the write of a run after its compensations, and the error it leaves is
\* the message of the last attempt of the step the run failed at.
C29_ErrorOnlyWithFailed ==
    /\ [](\A w \in Workflows :
            /\ StatusOf(db[w]) \in {"IN_PROGRESS", "SUCCESS"}
                  => ErrorOf(db[w]) = None
            /\ StatusOf(db[w]) = "FAILED" => ErrorOf(db[w]) # None)
    /\ [][\A w \in Workflows :
            (db'[w] # db[w] /\ StatusOf(db'[w]) = "FAILED")
               => \E p \in Procs :
                     /\ workflow_name[p] = w
                     /\ pc[p] = "failed_write"
                     /\ ErrorOf(db'[w]) = LastAttemptError(p, FailedAt(p))
                     /\ ErrorOf(db'[w]) =
                           FailedStepResult(execution_result[p]).error]_vars

\* a run began on a FAILED state, which held the message of step 0, and its
\* first write has cleared the error
C29_Witness ==
    /\ StatusOf(before[Caller].doc) = "FAILED"
    /\ ErrorOf(before[Caller].doc) = RunError(0, max_retries[Caller])
    /\ pc[Caller] = "loop"
    /\ StatusOf(db[workflow_name[Caller]]) = "IN_PROGRESS"
    /\ ErrorOf(db[workflow_name[Caller]]) = None

(* ------------------------------- C30 ----------------------------------- *)

\* what C30 says of one persisted state: last_success_step (-1 when the
\* document has none) is within -1 .. N-1, it is -1 with NOT_STARTED and
\* N-1 with SUCCESS, and with FAILED it is at most N-2 and the failed step
\* is the one right after it
CheckpointFitsStatus(doc) ==
    /\ Checkpoint(doc) \in -1 .. NumSteps - 1
    /\ StatusOf(doc) = "NOT_STARTED" => Checkpoint(doc) = -1
    /\ StatusOf(doc) = "SUCCESS" => Checkpoint(doc) = NumSteps - 1
    /\ StatusOf(doc) = "FAILED"
          => /\ Checkpoint(doc) <= NumSteps - 2
             /\ Get(doc, "failed_step", None) = name(Checkpoint(doc) + 1)

\* C30: the state before any call is as C30 says, and so is every state
\* persisted during or after a caller's call of execute, reset or get_status
\* that began on such a state and in which no read and no write of the state
\* failed: by induction, every persisted state of a sequence of calls without
\* store failures.
C30_CheckpointFitsStatus ==
    \A p \in Procs :
        /\ (\A q \in Procs : ret[q] = NoCall)
              => CheckpointFitsStatus(db[workflow_name[p]])
        /\ (/\ ret[p] # NoCall
            /\ CheckpointFitsStatus(before[p].doc)
            /\ NoStoreFailure(p))
              => CheckpointFitsStatus(db[workflow_name[p]])

\* a run resumed after step 0 failed at step 2: FAILED is persisted with
\* last_success_step = 1
C30_Witness ==
    /\ ReturnedStatus(Caller, "FAILED")
    /\ NoStoreFailure(Caller)
    /\ Checkpoint(before[Caller].doc) = 0
    /\ StatusOf(db[workflow_name[Caller]]) = "FAILED"
    /\ Checkpoint(db[workflow_name[Caller]]) = 1
    /\ db[workflow_name[Caller]].failed_step = name(2)

(* ------------------------------- C31 ----------------------------------- *)

\* the caller's execute began on the state a run that failed at step k left:
\* status FAILED with failed_step the name of step k (that run called
\* compensate() on the steps 0 .. k-1, by C1), and it is past its read
BeganOnFailedAt(p, k) ==
    /\ ret[p].op = "execute"
    /\ pc[p] \notin {"get_state"}
    /\ ret[p].kind # "crashed"
    /\ StatusOf(before[p].doc) = "FAILED"
    /\ Get(before[p].doc, "failed_step", None) = name(k)

\* the call has run no step below k, and the first step it ran, if any, is k
FirstRunsStep(p, k) ==
    /\ \A j \in 1 .. Len(RunCalls(p)) : RunCalls(p)[j].index >= k
    /\ Attempts(p) # <<>> => Attempts(p)[1].index = k

\* C31 as claimed: an execute that begins on the state left by a run that
\* failed at step k runs no step below k, and the first step it runs is k
\* (stated for the workflows that failed by a step's own error and for the
\* calls none of whose state writes has failed).
C31_Original ==
    \A p \in Procs : \A k \in 0 .. NumSteps - 1 :
        (/\ BeganOnFailedAt(p, k)
         /\ ErrorOf(before[p].doc) # WriteError
         /\ Events(p, "write_failed") = <<>>)
            => FirstRunsStep(p, k)

\* C31, amended: an execute, with either retry flag, that begins on the
\* state left by a run that failed at step k, and whose state read does not
\* fail, runs no step below k, records the steps 0 .. k-1 as SKIPPED, and the
\* first step it runs is the one after the persisted last_success_step,
\* which is k when the failed run left last_success_step = k-1 (as it does
\* unless its own read failed).
C31_CompensatedStepsStaySkipped ==
    \A p \in Procs : \A k \in 0 .. NumSteps - 1 :
        (BeganOnFailedAt(p, k) /\ ~ReadFailed(p)) =>
            /\ \A j \in 1 .. Len(RunCalls(p)) : RunCalls(p)[j].index >= k
            /\ Checkpoint(before[p].doc) >= k - 1
            /\ Attempts(p) # <<>> =>
                  Attempts(p)[1].index = Checkpoint(before[p].doc) + 1
            /\ Checkpoint(before[p].doc) = k - 1 => FirstRunsStep(p, k)
            /\ (ReturnedStatus(p, "SUCCESS") \/ ReturnedStatus(p, "FAILED"))
                  => \A j \in 1 .. k :
                        ret[p].value.steps_executed[j] = SkippedResult(j - 1)

\* an execute(retry = false) began on the state of a run that failed at
\* step 1, skipped step 0 and ran step 1 first
C31_Witness ==
    /\ BeganOnFailedAt(Caller, 1)
    /\ ~retry[Caller]
    /\ ~ReadFailed(Caller)
    /\ ReturnedStatus(Caller, "SUCCESS")
    /\ Indices(RunCalls(Caller)) = <<1, 2>>
    /\ ret[Caller].value.steps_executed[1].status = "SKIPPED"

(* ------------------------------- C32 ----------------------------------- *)

\* the caller's execute began on a persisted status SUCCESS and is past its
\* read
BeganOnSuccess(p) ==
    /\ ret[p].op = "execute"
    /\ pc[p] # "get_state"
    /\ ret[p].kind # "crashed"
    /\ StatusOf(before[p].doc) = "SUCCESS"

\* the call has made no call of run() and none of compensate()
CallsNoStep(p) ==
    /\ RunCalls(p) = <<>>
    /\ Events(p, "compensate") = <<>>

\* the result returned has status SUCCESS and every step recorded SKIPPED
ReturnedAllSkipped(p) ==
    /\ ret[p].value.status = "SUCCESS"
    /\ Len(ret[p].value.steps_executed) = NumSteps
    /\ \A j \in 1 .. NumSteps :
          /\ ret[p].value.steps_executed[j].status = "SKIPPED"
          /\ ret[p].value.steps_executed[j].index = j - 1

\* C32 as claimed: an execute that begins on status SUCCESS calls no run()
\* and no compensate(), and when it returns it returns SUCCESS with every
\* step SKIPPED and has appended one history entry.
C32_Original ==
    \A p \in Procs :
        BeganOnSuccess(p) =>
            /\ CallsNoStep(p)
            /\ (pc[p] = "idle" /\ ret[p].kind = "returned")
                  => /\ ReturnedAllSkipped(p)
                     /\ HistoryOf(p) = Append(before[p].history, ret[p].value)

\* C32, amended: an execute, with either retry flag, that begins on status
\* SUCCESS and whose state read does not fail calls no run() and no
\* compensate(); it ends by returning SUCCESS with every step SKIPPED and
\* SUCCESS persisted, or by raising the error of a state write; when it
\* returns it has appended one history entry, or none if the add failed.
C32_SuccessRerunSkipsAll ==
    \A p \in Procs :
        (BeganOnSuccess(p) /\ ~ReadFailed(p)) =>
            /\ CallsNoStep(p)
            /\ pc[p] = "idle"
                  => \/ ret[p] = Raised("execute", WriteError)
                     \/ /\ ret[p].kind = "returned"
                        /\ ReturnedAllSkipped(p)
                        /\ StatusOf(Persisted(p)) = "SUCCESS"
                        /\ IF HistoryAddFailed(p)
                           THEN HistoryOf(p) = before[p].history
                           ELSE HistoryOf(p) =
                                   Append(before[p].history, ret[p].value)

\* an execute(retry = false) on a SUCCESS workflow returned SUCCESS with
\* every step SKIPPED and the history has a second entry
C32_Witness ==
    /\ BeganOnSuccess(Caller)
    /\ ~retry[Caller]
    /\ ~ReadFailed(Caller)
    /\ pc[Caller] = "idle"
    /\ ret[Caller].kind = "returned"
    /\ ReturnedAllSkipped(Caller)
    /\ Len(HistoryOf(Caller)) = 2

(* ------------------------------- C33 ----------------------------------- *)

\* the second caller
Other ==
    "p2"

\* a document after update_state(data)
Written(doc, data) ==
    Merge(doc, Merge(data, [updated_at |-> "ts"]))

RECURSIVE StateAfterSteps(_, _, _)
\* the document after the steps i .. k-1 went through at their first attempt
StateAfterSteps(doc, i, k) ==
    IF i >= k THEN doc
    ELSE StateAfterSteps(
             Written(Written(doc, AttemptUpdate(i, 0)), CheckpointUpdate(i)),
             i + 1, k)

\* the document a first run leaves when it is cut after its first write
InProgressState ==
    Written(NoDocument, InitialUpdate(0))

\* the document a first run leaves when step k fails at each of m attempts
FailedState(k, m) ==
    Written(Written(StateAfterSteps(InProgressState, 0, k),
                    AttemptUpdate(k, m - 1)),
            FailedUpdate(FailedResult(k, m - 1, RunError(k, m)), k))

\* the document a first run leaves when every step goes through
SuccessState ==
    Written(StateAfterSteps(InProgressState, 0, NumSteps), SuccessUpdate)

\* persisted states a workflow can be in when execute is called, for
\* orchestrators built with max_retries = m
StartStates(m) ==
    {NoDocument, get_default_state, InProgressState, SuccessState}
        \cup {FailedState(k, m) : k \in 0 .. NumSteps - 1}

\* two workflows in the same persisted state, one orchestrator on each
InitPair ==
    /\ \E m \in RetryChoices :
          /\ max_retries = [p \in Procs |-> m]
          /\ \E doc \in StartStates(m) : db = [w \in Workflows |-> doc]
    /\ history = [w \in Workflows |-> <<>>]
    /\ workflow_name = [p \in Procs |->
                           IF p = Caller THEN "daily_data_analysis"
                           ELSE "other_workflow"]
    /\ pc = [p \in Procs |-> "idle"]
    /\ retry = [p \in Procs |-> FALSE]
    /\ last_success_step = [p \in Procs |-> -1]
    /\ retry_count = [p \in Procs |-> 0]
    /\ index = [p \in Procs |-> 0]
    /\ attempt = [p \in Procs |-> 0]
    /\ comp_index = [p \in Procs |-> 0]
    /\ execution_result = [p \in Procs |-> NewExecutionResult]
    /\ ret = [p \in Procs |-> NoCall]
    /\ trace = [p \in Procs |-> <<>>]
    /\ before = [p \in Procs |-> [doc |-> db[workflow_name[p]],
                                   history |-> <<>>,
                                   runs |-> 0, inflight |-> {},
                                   crashed |-> FALSE, accepted |-> FALSE]]
    /\ runs = 0
    /\ failures = 0

\* the first caller's execute(retry = true) on its workflow, then the second
\* caller's execute(retry = false) on the other one, the steps and the store
\* giving the second call the outcomes they gave the first
NextPair ==
    \/ ret[Caller] = NoCall /\ execute(Caller, TRUE, max_retries[Caller])
    \/ Proceed(Caller)
    \/ /\ ExecuteOver(Caller)
       /\ ret[Other] = NoCall
       /\ execute(Other, FALSE, max_retries[Other])
    \/ Proceed(Other) /\ IsPrefix(trace'[Other], trace[Caller])

SpecPair ==
    InitPair /\ [][NextPair]_vars

\* a document with its retry_count left out of the comparison
ButRetryCount(doc) ==
    Merge(doc, [retry_count |-> 0])

\* both calls have returned a result of a run, having had the same outcomes
BothReturned ==
    /\ ExecuteOver(Caller) /\ ret[Caller].kind = "returned"
    /\ ExecuteOver(Other) /\ ret[Other].kind = "returned"
    /\ trace[Other] = trace[Caller]

\* C33: of two executes begun on the same persisted state, of a status other
\* than IN_PROGRESS, one with retry = true and one with retry = false, with
\* the same outcomes of the steps and of the store: the second, in its run,
\* resumes from the same last_success_step as the first when that one read
\* the state; once both have returned, having made the same calls of run()
\* and compensate() in the same order, they return the same result,
\* steps_executed included, and the two persisted states are equal but for
\* retry_count.
C33_RetryFlagDoesNotSteer ==
    (/\ before[Caller].doc = before[Other].doc
     /\ StatusOf(before[Caller].doc) # "IN_PROGRESS"
     /\ retry[Caller] /\ ~retry[Other]
     /\ ret[Other].op = "execute"
     /\ ret[Caller].kind = "returned") =>
        /\ (InRun(Other) /\ ~ReadFailed(Caller))
              => last_success_step[Other] = Checkpoint(before[Caller].doc)
        /\ BothReturned
              => /\ ret[Other].value = ret[Caller].value
                 /\ ButRetryCount(Persisted(Other))
                       = ButRetryCount(Persisted(Caller))

\* both calls began on the state of a run that failed at step 1, skipped
\* step 0, ran steps 1 and 2 and returned SUCCESS
C33_Witness ==
    /\ BothReturned
    /\ retry[Caller] /\ ~retry[Other]
    /\ StatusOf(before[Caller].doc) = "FAILED"
    /\ before[Other].doc = before[Caller].doc
    /\ Indices(RunCalls(Other)) = <<1, 2>>
    /\ ret[Other].value.status = "SUCCESS"
    /\ ret[Other].value.steps_executed[1].status = "SKIPPED"

(* ------------------------------- C34 ----------------------------------- *)

\* the caller's run() of step i has returned and the write of
\* last_success_step = i is to come
AtCheckpointWrite(p) ==
    /\ pc[p] = "checkpoint_write"
    /\ LastRunCall(p) = Event("run", index[p], attempt[p] + 1, None)

\* the step of the behaviour is that write, failing
CheckpointWriteFails(p) ==
    /\ AtCheckpointWrite(p)
    /\ pc'[p] # "loop"

\* C34: when the write of last_success_step = i fails after run() of step i
\* returned, the state is left as it was and the call goes on: before the
\* last attempt, to the next attempt of step i, whose run() is the next call
\* made on a step; at the last attempt, to the compensations of the steps
\* i-1, ..., 0, with step i recorded FAILED with the write's error and
\* attempts = max_retries. After such a failure no step below i is run, and
\* compensate() is called on step i or on a later one only once an attempt
\* of a step after i has failed.
C34_CheckpointWriteFailureIsAttempt ==
    /\ [][\A p \in Procs :
            CheckpointWriteFails(p) =>
                /\ db' = db
                /\ ret'[p] = Pending("execute")
                /\ trace'[p] =
                      Append(trace[p],
                             Event("write_failed", index[p], attempt[p] + 1,
                                   WriteError))
                /\ IF attempt[p] + 1 < max_retries[p]
                   THEN /\ pc'[p] = "attempt_write"
                        /\ index'[p] = index[p]
                        /\ attempt'[p] = attempt[p] + 1
                        /\ execution_result'[p] = execution_result[p]
                   ELSE /\ pc'[p] = "compensate"
                        /\ comp_index'[p] = index[p] - 1
                        /\ execution_result'[p].steps_executed =
                              Append(execution_result[p].steps_executed,
                                     [step |-> name(index[p]),
                                      status |-> "FAILED",
                                      index |-> index[p],
                                      attempts |-> max_retries[p],
                                      error |-> WriteError])]_vars
    /\ [](\A p \in Procs :
            \A j \in 1 .. Len(trace[p]) - 1 :
                (/\ trace[p][j].op = "run" /\ trace[p][j].error = None
                 /\ trace[p][j + 1].op = "write_failed"
                 /\ trace[p][j + 1].index = trace[p][j].index
                 /\ trace[p][j + 1].attempt = trace[p][j].attempt)
                   => /\ \A n \in j + 2 .. Len(trace[p]) :
                            /\ trace[p][n].op = "run"
                                  => trace[p][n].index >= trace[p][j].index
                            /\ (/\ trace[p][n].op = "compensate"
                                /\ trace[p][n].index >= trace[p][j].index)
                                  => \E m \in j + 2 .. n - 1 :
                                        /\ trace[p][m].op
                                              \in {"run", "write_failed"}
                                        /\ trace[p][m].index
                                              > trace[p][j].index
                      /\ (j + 2 <= Len(trace[p])
                            /\ trace[p][j + 2].op = "run")
                            => /\ trace[p][j + 2].index = trace[p][j].index
                               /\ trace[p][j + 2].attempt
                                     = trace[p][j].attempt + 1)

\* run() of step 1 returned at the last attempt, the write of its checkpoint
\* failed, and the run returned FAILED at step 1 having compensated step 0
\* only
C34_Witness ==
    /\ ReturnedStatus(Caller, "FAILED")
    /\ ret[Caller].value.failed_step_index = 1
    /\ LastRunCall(Caller) = Event("run", 1, max_retries[Caller], None)
    /\ Events(Caller, "write_failed")
          = <<Event("write_failed", 1, max_retries[Caller], WriteError)>>
    /\ Compensations(Caller) = <<0>>
    /\ ret[Caller].value.steps_executed[2].error = WriteError

(* ------------------------------- C35 ----------------------------------- *)

\* the caller is in a call of execute, past its state read, that began on a
\* workflow persisted as IN_PROGRESS with no call in flight: a run cut short
\* by a crash or by a write error raised out of it left it so
BeganOnStuck(p) ==
    /\ ret[p].op = "execute"
    /\ ret[p].kind # "crashed"
    /\ pc[p] # "get_state"
    /\ StatusOf(before[p].doc) = "IN_PROGRESS"
    /\ before[p].inflight = {}

\* the call returned ALREADY_IN_PROGRESS; the state and the history are as
\* it found them
RefusedUnchanged(p) ==
    /\ ReturnedStatus(p, "ALREADY_IN_PROGRESS")
    /\ trace[p] = <<>>
    /\ Persisted(p) = before[p].doc
    /\ HistoryOf(p) = before[p].history

\* C35 as claimed: every execute(retry = false) on a workflow left
\* IN_PROGRESS returns ALREADY_IN_PROGRESS and changes nothing, and no
\* execute(retry = true) returns ALREADY_IN_PROGRESS.
C35_Original ==
    \A p \in Procs :
        /\ (BeganOnStuck(p) /\ ~retry[p]) => RefusedUnchanged(p)
        /\ (ret[p].op = "execute" /\ retry[p])
              => ~ReturnedStatus(p, "ALREADY_IN_PROGRESS")

\* C35, amended: an execute(retry = false) on a workflow left IN_PROGRESS
\* whose state read does not fail returns ALREADY_IN_PROGRESS and changes
\* nothing; the state of such a workflow is changed only by a reset, by an
\* execute(retry = true) or by an execute whose state read failed; and no
\* execute(retry = true) returns ALREADY_IN_PROGRESS, whatever it read.
C35_StuckUntilRetryOrReset ==
    /\ [](\A p \in Procs :
            /\ (BeganOnStuck(p) /\ ~retry[p] /\ ~ReadFailed(p))
                  => RefusedUnchanged(p)
            /\ (ret[p].op = "execute" /\ retry[p])
                  => ~ReturnedStatus(p, "ALREADY_IN_PROGRESS"))
    /\ [][\A p \in Procs :
            (/\ BeganOnStuck(p)
             /\ BeganOnStuck(p)'
             /\ Persisted(p)' # Persisted(p))
                => retry[p] \/ ReadFailed(p)]_vars

\* a crash left the workflow IN_PROGRESS and the execute(retry = false) that
\* followed returned ALREADY_IN_PROGRESS
C35_Witness ==
    /\ BeganOnStuck(Caller)
    /\ before[Caller].crashed
    /\ ~retry[Caller]
    /\ ~ReadFailed(Caller)
    /\ RefusedUnchanged(Caller)

(* ------------------------------- C36 ----------------------------------- *)

\* C36: the retry_count of every persisted state (0 when the document has
\* none) is 0, and so is the one every call of execute holds for its first
\* write.
C36_RetryCountAlwaysZero ==
    /\ \A w \in Workflows : RetryCountOf(db[w]) = 0
    /\ \A p \in Procs : retry_count[p] = 0

\* a FAILED workflow was retried with retry = true to SUCCESS, and its
\* retry_count is written and 0
C36_Witness ==
    /\ retry[Caller]
    /\ StatusOf(before[Caller].doc) = "FAILED"
    /\ ReturnedStatus(Caller, "SUCCESS")
    /\ "retry_count" \in DOMAIN Persisted(Caller)
    /\ Persisted(Caller).retry_count = 0

(* ------------------------------- C37 ----------------------------------- *)

\* one request runs execute while another resets the same workflow, at any
\* point of the run
NextReset ==
    \/ \E r \in BOOLEAN : execute(Caller, r, max_retries[Caller])
    \/ Proceed(Caller)
    \/ reset(Other)

SpecReset ==
    InitConc /\ [][NextReset]_vars

\* the last reset of q went through while the call of p, still its latest,
\* was in flight
ResetDuring(q, p) ==
    /\ ret[q] = Returned("reset", None)
    /\ p \in before[q].inflight
    /\ before[q].runs = runs

\* C37: a reset made while an execute is in flight replaces the document by
\* the default state and leaves the run where it is, with its locals; every
\* later write of the run keeps the fields the document has and adds its
\* own; the write at the end of the run leaves status SUCCESS with
\* last_success_step = N-1, or status FAILED, and a run that returns after
\* such a reset has left the status it returns unless the reset came after
\* that write. Within a run the persisted
\* status is NOT_STARTED only when reset was called during the run.
C37_ResetDoesNotStopRun ==
    /\ [][\A p \in Procs : \A q \in Procs \ {p} :
            /\ (pc[p] # "idle" /\ workflow_name[q] = workflow_name[p]
                  /\ (ret'[q] # ret[q] \/ before'[q] # before[q])
                  /\ ret'[q] = Returned("reset", None))
                  => /\ Persisted(p)' = get_default_state
                     /\ pc'[p] = pc[p]
                     /\ index'[p] = index[p]
                     /\ last_success_step'[p] = last_success_step[p]
                     /\ execution_result'[p] = execution_result[p]
                     /\ ResetDuring(q, p)'
            /\ (pc[p] # "idle" /\ ~IsReset(workflow_name[p]))
                  => \A f \in DOMAIN Persisted(p) :
                        f \in DOMAIN Persisted(p)'
            /\ (pc[p] = "success_write" /\ pc'[p] = "history")
                  => /\ StatusOf(Persisted(p)') = "SUCCESS"
                     /\ Checkpoint(Persisted(p)') = NumSteps - 1
            /\ (pc[p] = "failed_write" /\ pc'[p] = "history")
                  => StatusOf(Persisted(p)') = "FAILED"]_vars
    /\ [](\A p \in Procs : \A q \in Procs \ {p} :
            /\ (ResetDuring(q, p) /\ ReturnedStatus(p, "SUCCESS")
                  /\ Persisted(p) # get_default_state)
                  => /\ StatusOf(Persisted(p)) = "SUCCESS"
                     /\ Checkpoint(Persisted(p)) = NumSteps - 1
            /\ (ResetDuring(q, p) /\ ReturnedStatus(p, "FAILED")
                  /\ Persisted(p) # get_default_state)
                  => StatusOf(Persisted(p)) = "FAILED"
            /\ (InRun(p) /\ workflow_name[q] = workflow_name[p]
                  /\ StatusOf(Persisted(p)) = "NOT_STARTED")
                  => /\ ret[q].op = "reset"
                     /\ p \in before[q].inflight
                     /\ before[q].runs = runs)

\* the workflow was reset while step 1 is being run: the persisted status is
\* NOT_STARTED and last_success_step is -1 although step 0 is done
C37_Witness ==
    /\ pc[Caller] = "run"
    /\ index[Caller] = 1
    /\ ResetDuring(Other, Caller)
    /\ StatusOf(Persisted(Caller)) = "NOT_STARTED"
    /\ Checkpoint(Persisted(Caller)) = -1

(* ------------------------------- C38 ----------------------------------- *)

\* the step of the behaviour takes the failed_step away from workflow w or
\* changes it
FailedStepGoes(w) ==
    /\ "failed_step" \in DOMAIN db[w]
    /\ \/ "failed_step" \notin DOMAIN db'[w]
       \/ db'[w].failed_step # db[w].failed_step

\* C38: an execute that began on the state of a run that failed at step k
\* and returned SUCCESS has left status SUCCESS and no error, with
\* failed_step still the name of step k and current_step the name of the
\* step it ran last (of the step the workflow ran last, when it skipped them
\* all); a failed_step goes from a state only by a reset or by the FAILED
\* write of a later run.
C38_FailedFieldsStay ==
    /\ [](\A p \in Procs : \A k \in 0 .. NumSteps - 1 :
            (BeganOnFailedAt(p, k) /\ ReturnedStatus(p, "SUCCESS")) =>
                /\ StatusOf(Persisted(p)) = "SUCCESS"
                /\ ErrorOf(Persisted(p)) = None
                /\ Get(Persisted(p), "failed_step", None) = name(k)
                /\ Get(Persisted(p), "current_step", None) =
                      IF RunCalls(p) # <<>>
                      THEN name(LastRunCall(p).index)
                      ELSE Get(before[p].doc, "current_step", None)
                /\ (~ReadFailed(p) /\ Checkpoint(before[p].doc) = k - 1)
                      => Get(Persisted(p), "current_step", None)
                            = name(NumSteps - 1))
    /\ [][\A w \in Workflows :
            FailedStepGoes(w) =>
                \/ IsReset(w)
                \/ \E p \in Procs :
                      /\ workflow_name[p] = w
                      /\ pc[p] = "failed_write"
                      /\ pc'[p] = "history"]_vars

\* a run failed at step 1, the next execute ran steps 1 and 2 and returned
\* SUCCESS: failed_step is still step 1's name
C38_Witness ==
    /\ BeganOnFailedAt(Caller, 1)
    /\ ReturnedStatus(Caller, "SUCCESS")
    /\ Indices(RunCalls(Caller)) = <<1, 2>>
    /\ Persisted(Caller).status = "SUCCESS"
    /\ Persisted(Caller).failed_step = name(1)
    /\ Persisted(Caller).current_step = name(2)

(* ------------------------------- C39 ----------------------------------- *)

\* values of max_retries that leave the attempt loop empty
NoRetryChoices ==
    {-1, 0}

\* every request builds its orchestrator, with max_retries 1 or with a value
\* that is not positive; at most one call on the store or on a step fails
NextNoRetries ==
    \/ \E r \in BOOLEAN : \E m \in NoRetryChoices \cup {1} :
          execute(Caller, r, m)
    \/ Proceed(Caller)

SpecNoRetries ==
    InitConc /\ [][NextNoRetries]_vars

\* the caller's execute was built with max_retries <= 0 and is past its
\* state read
WithoutRetries(p) ==
    /\ ret[p].op = "execute"
    /\ pc[p] # "get_state"
    /\ max_retries[p] <= 0

============================================================================
